---- MODULE Spec2Model ----
(***************************************************************************)
(* Pit Stop: stall classification and changelog intelligence.              *)
(*                                                                         *)
(* Time is measured in ticks; one hour is TicksPerHour ticks, so that      *)
(* fractional hours exist.  A JavaScript Date is a number of ticks, the    *)
(* JavaScript null / undefined is the marker Null (for strings) or NoDate  *)
(* (for dates).  Strings are TLA+ strings; template literals are built     *)
(* with \o and ToString.  Non-ASCII glyphs of the messages are dropped.    *)
(***************************************************************************)
EXTENDS Integers, Sequences, FiniteSets, TLC

VARIABLES
    histories,   \* tracker: the changelog histories of the issue, as the API returns them
    changelogResponse,  \* tracker: its answer to the last changelog request ("ok", "notok", "throw")
    analysis,    \* changelogAnalyzer.js: last value returned by analyzeChangelog, or NotRun
    world,       \* what isStalled reads: the issue, the stored configuration and the
                 \* tracker's answer to each request
    result,      \* telemetry.js: last value returned by isStalled, Threw, or NotRun
    board,       \* what getDashboardMetrics reads: the stored configuration and the
                 \* active issues in the order the search returns them
    listResponse,  \* tracker: its answer to the last issue search
    metrics,     \* dashboardMetrics.js: last value returned by getDashboardMetrics, or NotRun
    store,       \* Forge storage: the object stored under CONFIG_KEY, or NoConfig
    defaultThresholds,  \* configManager.js: the module-level object DEFAULT_THRESHOLDS
                 \* as it stands in the running instance
    configOp,    \* configManager.js: the last configuration operation and its outcome
    calls,       \* configManager.js: the setThresholds / setSettings calls in flight, each
                 \* with its position and its local variable config
    thread,      \* tracker: the comments of one issue, oldest first
    clock,       \* tracker: the time of day of the comment thread, in hours
    appAccountId,  \* index.js: the module-level variable appAccountId
    events,      \* Forge: the comment events not yet delivered to handleComment
    lastRun,     \* index.js / scanner.js: the last handler run and what it posted
    phase        \* which operation acted last

vars == <<histories, changelogResponse, analysis, world, result, board, listResponse, metrics, store, defaultThresholds, configOp, calls, thread, clock, appAccountId, events, lastRun, phase>>

commentVars == <<thread, clock, appAccountId, events, lastRun>>

-----------------------------------------------------------------------------
(* Bounds of the model *)

TicksPerHour == 4
MaxEntries == 2
MaxItems == 2
MaxTimeline == 5

Hours(h) == h * TicksPerHour

\* Analysis time, and the creation times the tracker stamps on history entries
Now == Hours(400)

Null == "<null>"
NoDate == 0 - 1
NotRun == [kind |-> "notrun"]
NoWorld == [kind |-> "none"]

-----------------------------------------------------------------------------
(* String helpers: String.prototype.toLowerCase / includes / Array.join *)

LowerChar(c) ==
    CASE c = "A" -> "a" [] c = "B" -> "b" [] c = "C" -> "c" [] c = "D" -> "d"
      [] c = "E" -> "e" [] c = "F" -> "f" [] c = "G" -> "g" [] c = "H" -> "h"
      [] c = "I" -> "i" [] c = "J" -> "j" [] c = "K" -> "k" [] c = "L" -> "l"
      [] c = "M" -> "m" [] c = "N" -> "n" [] c = "O" -> "o" [] c = "P" -> "p"
      [] c = "Q" -> "q" [] c = "R" -> "r" [] c = "S" -> "s" [] c = "T" -> "t"
      [] c = "U" -> "u" [] c = "V" -> "v" [] c = "W" -> "w" [] c = "X" -> "x"
      [] c = "Y" -> "y" [] c = "Z" -> "z" [] OTHER -> c

RECURSIVE toLowerCase(_)
toLowerCase(s) ==
    IF Len(s) = 0 THEN ""
    ELSE LowerChar(SubSeq(s, 1, 1)) \o toLowerCase(SubSeq(s, 2, Len(s)))

includes(s, p) ==
    \E i \in 0..(Len(s) - Len(p)) : SubSeq(s, i + 1, i + Len(p)) = p

RECURSIVE join(_, _)
join(strs, sep) ==
    IF Len(strs) = 0 THEN ""
    ELSE IF Len(strs) = 1 THEN (IF strs[1] = Null THEN "" ELSE strs[1])
    ELSE (IF strs[1] = Null THEN "" ELSE strs[1]) \o sep \o join(Tail(strs), sep)

\* Array.prototype.map over a sequence
MapSeq(s, F(_)) == [i \in 1..Len(s) |-> F(s[i])]

\* [...new Set(values)]: the distinct values in order of first occurrence
RECURSIVE Distinct(_)
Distinct(s) ==
    IF Len(s) = 0 THEN <<>>
    ELSE LET init == Distinct(SubSeq(s, 1, Len(s) - 1))
             last == s[Len(s)]
         IN  IF \E i \in 1..Len(init) : init[i] = last THEN init ELSE Append(init, last)

SeqTake(s, n) == SubSeq(s, 1, IF Len(s) < n THEN Len(s) ELSE n)

-----------------------------------------------------------------------------
(* changelogAnalyzer.js *)

BOT_PATTERNS == <<"automation", "bot", "jira", "service", "system", "[bot]", "forge-app">>

MEANINGFUL_CHANGES ==
    {"status", "assignee", "priority", "resolution", "Sprint", "Fix Version",
     "labels", "description"}

NOISE_CHANGES == {"Rank", "timeestimate", "timespent", "worklog", "attachment"}

\* An author of a history entry; present = FALSE is an entry without author
NoAuthor == [present |-> FALSE, displayName |-> "", accountType |-> ""]
Human(name) == [present |-> TRUE, displayName |-> name, accountType |-> "atlassian"]

\* Faulty variant: the display name is matched without lowering its case
isBotUserCaseSensitive(author) ==
    IF ~author.present THEN TRUE
    ELSE IF author.accountType = "app" \/ author.accountType = "system" THEN TRUE
    ELSE \E k \in 1..Len(BOT_PATTERNS) : includes(author.displayName, BOT_PATTERNS[k])

isBotUser(author) ==
    IF ~author.present THEN TRUE
    ELSE LET displayName == toLowerCase(author.displayName)
             accountType == author.accountType
         IN  IF accountType = "app" \/ accountType = "system" THEN TRUE
             ELSE \E k \in 1..Len(BOT_PATTERNS) : includes(displayName, BOT_PATTERNS[k])

\* entry.author?.displayName || "Unknown"
AuthorLabel(author) ==
    IF author.present /\ author.displayName # "" THEN author.displayName ELSE "Unknown"

\* histories.sort((a, b) => new Date(b.created) - new Date(a.created)): stable, descending
RECURSIVE SortByCreatedDesc(_)
InsertDesc(sorted, e) ==
    LET k == Cardinality({i \in 1..Len(sorted) : sorted[i].created >= e.created})
    IN  SubSeq(sorted, 1, k) \o <<e>> \o SubSeq(sorted, k + 1, Len(sorted))
SortByCreatedDesc(hs) ==
    IF Len(hs) = 0 THEN <<>>
    ELSE InsertDesc(SortByCreatedDesc(SubSeq(hs, 1, Len(hs) - 1)), hs[Len(hs)])

\* response: "ok", "notok" (response.ok false) or "throw" (requestJira rejects)
fetchChangelog(response, hs) ==
    IF response = "ok" THEN SortByCreatedDesc(hs) ELSE <<>>

\* (now - date) / (1000 * 60 * 60) < h, on ticks
HoursSinceBelow(now, date, h) == now - date < Hours(h)
HoursSinceAbove(now, date, h) == now - date > Hours(h)

\* Faulty variant: every status change counts, whatever its age
ThrashingAnyAge(statusChanges, now) ==
    IF Len(statusChanges) >= 5
    THEN <<[type |-> "STATUS_THRASHING",
            severity |-> "HIGH",
            message |-> "Status changed " \o ToString(Len(statusChanges))
                        \o " times in 48 hours: "
                        \o join(MapSeq(statusChanges, LAMBDA c : c.to), " -> "),
            count |-> Len(statusChanges),
            timeframe |-> "48 hours",
            details |-> statusChanges]>>
    ELSE <<>>

\* Pattern 1: status changed 5+ times in 48 hours
ThrashingPattern(statusChanges, now) ==
    IF Len(statusChanges) >= 5
    THEN LET recentChanges == SelectSeq(statusChanges, LAMBDA c : HoursSinceBelow(now, c.date, 48))
         IN  IF Len(recentChanges) >= 5
             THEN <<[type |-> "STATUS_THRASHING",
                     severity |-> "HIGH",
                     message |-> "Status changed " \o ToString(Len(recentChanges))
                                 \o " times in 48 hours: "
                                 \o join(MapSeq(recentChanges, LAMBDA c : c.to), " -> "),
                     count |-> Len(recentChanges),
                     timeframe |-> "48 hours",
                     details |-> recentChanges]>>
             ELSE <<>>
    ELSE <<>>

\* Pattern 2: status goes back and forth between the same two states
\* Faulty variant: every status change counts, not the five most recent
PingPongOverAll(statusChanges) ==
    IF Len(statusChanges) >= 3
    THEN LET uniqueStatuses == Distinct(MapSeq(statusChanges, LAMBDA c : c.to))
         IN  IF Len(uniqueStatuses) = 2
             THEN <<[type |-> "STATUS_PING_PONG",
                     severity |-> "MEDIUM",
                     message |-> "Status bouncing between " \o join(uniqueStatuses, " <-> "),
                     statuses |-> uniqueStatuses,
                     count |-> Len(statusChanges),
                     details |-> statusChanges]>>
             ELSE <<>>
    ELSE <<>>

PingPongPattern(statusChanges) ==
    IF Len(statusChanges) >= 3
    THEN LET recent == SeqTake(statusChanges, 5)
             uniqueStatuses == Distinct(MapSeq(recent, LAMBDA c : c.to))
         IN  IF Len(uniqueStatuses) = 2
             THEN <<[type |-> "STATUS_PING_PONG",
                     severity |-> "MEDIUM",
                     message |-> "Status bouncing between " \o join(uniqueStatuses, " <-> "),
                     statuses |-> uniqueStatuses,
                     count |-> Len(recent),
                     details |-> recent]>>
             ELSE <<>>
    ELSE <<>>

\* Pattern 3: reassigned 3+ times within a week
ChurningPattern(assignments, now) ==
    IF Len(assignments) >= 3
    THEN LET recentAssignments == SelectSeq(assignments, LAMBDA a : HoursSinceBelow(now, a.date, 168))
             assignees == MapSeq(recentAssignments,
                                 LAMBDA a : IF a.to = Null \/ a.to = "" THEN "Unassigned" ELSE a.to)
         IN  IF Len(recentAssignments) >= 3
             THEN <<[type |-> "ASSIGNMENT_CHURNING",
                     severity |-> "MEDIUM",
                     message |-> "Reassigned " \o ToString(Len(recentAssignments))
                                 \o " times: " \o join(assignees, " -> "),
                     count |-> Len(recentAssignments),
                     assignees |-> assignees,
                     details |-> recentAssignments]>>
             ELSE <<>>
    ELSE <<>>

\* Pattern 4: reopened multiple times (c.to.toLowerCase() throws on a missing value)
ReopensThrows(statusChanges) == \E i \in 1..Len(statusChanges) : statusChanges[i].to = Null

ReopensPattern(statusChanges) ==
    LET reopens == SelectSeq(statusChanges,
                             LAMBDA c : \/ includes(toLowerCase(c.to), "open")
                                        \/ includes(toLowerCase(c.to), "reopened"))
    IN  IF Len(reopens) >= 2
        THEN <<[type |-> "MULTIPLE_REOPENS",
                severity |-> "HIGH",
                message |-> "Issue reopened " \o ToString(Len(reopens))
                            \o " times - may indicate quality issues",
                count |-> Len(reopens),
                details |-> reopens]>>
        ELSE <<>>

\* Variant: the most recent status change counts as stuck after one day
StuckAfterOneDay(statusChanges, now) ==
    IF Len(statusChanges) > 0
    THEN LET lastStatusChange == statusChanges[1]
         IN  IF HoursSinceAbove(now, lastStatusChange.date, 24)
             THEN <<[type |-> "STUCK_IN_STATUS",
                     severity |-> "MEDIUM",
                     message |-> "Stuck",
                     status |-> lastStatusChange.to,
                     days |-> (now - lastStatusChange.date) \div Hours(24),
                     details |-> lastStatusChange]>>
             ELSE <<>>
    ELSE <<>>

\* Pattern 5: the most recent status change is more than a week old
StuckPattern(statusChanges, now) ==
    IF Len(statusChanges) > 0
    THEN LET lastStatusChange == statusChanges[1]
         IN  IF HoursSinceAbove(now, lastStatusChange.date, 168)
             THEN LET daysSince == (now - lastStatusChange.date) \div Hours(24)
                  IN  <<[type |-> "STUCK_IN_STATUS",
                         severity |-> "MEDIUM",
                         message |-> "Stuck in '" \o (IF lastStatusChange.to = Null THEN "null"
                                                      ELSE lastStatusChange.to)
                                     \o "' for " \o ToString(daysSince) \o " days",
                         status |-> lastStatusChange.to,
                         days |-> daysSince,
                         details |-> lastStatusChange]>>
             ELSE <<>>
    ELSE <<>>

detectPatternsThrows(statusChanges) == ReopensThrows(statusChanges)

detectPatterns(statusChanges, assignments, now) ==
    ThrashingPattern(statusChanges, now)
        \o PingPongPattern(statusChanges)
        \o ChurningPattern(assignments, now)
        \o ReopensPattern(statusChanges)
        \o StuckPattern(statusChanges, now)

\* The accumulator of analyzeChangelog: the analysis object plus the two local timelines
NewAnalysis ==
    [kind |-> "analysis",
     lastMeaningfulUpdate |-> NoDate, lastMeaningfulUpdateBy |-> Null,
     totalChanges |-> 0, meaningfulChanges |-> 0, noiseChanges |-> 0,
     patterns |-> <<>>, timeline |-> <<>>, statusHistory |-> <<>>,
     assignmentHistory |-> <<>>, thrashing |-> FALSE,
     statusChanges |-> <<>>, assignments |-> <<>>]

\* The value returned for a missing or empty changelog
EmptyAnalysis ==
    [kind |-> "analysis",
     lastMeaningfulUpdate |-> NoDate, lastMeaningfulUpdateBy |-> Null,
     totalChanges |-> 0, meaningfulChanges |-> 0, noiseChanges |-> 0,
     patterns |-> <<>>, timeline |-> <<>>]

NullAnalysis == [kind |-> "null"]

\* Body of the inner loop: one item of one changelog entry
ProcessItem(acc, entry, item) ==
    LET author == AuthorLabel(entry.author)
        created == entry.created
        isBot == isBotUser(entry.author)
        field == item.field
        isMeaningful == field \in MEANINGFUL_CHANGES /\ ~isBot
        isNoise == field \in NOISE_CHANGES \/ isBot
        newer == acc.lastMeaningfulUpdate = NoDate \/ created > acc.lastMeaningfulUpdate
        change == [date |-> created, from |-> item.fromString, to |-> item.toString,
                   author |-> author]
    IN  IF isMeaningful
        THEN [acc EXCEPT
                !.meaningfulChanges = @ + 1,
                !.lastMeaningfulUpdate = IF newer THEN created ELSE @,
                !.lastMeaningfulUpdateBy = IF newer THEN author ELSE @,
                !.timeline = Append(@, [date |-> created, author |-> author, field |-> field,
                                        from |-> item.fromString, to |-> item.toString,
                                        type |-> "meaningful"]),
                !.statusChanges = IF field = "status" THEN Append(@, change) ELSE @,
                !.statusHistory = IF field = "status"
                                  THEN Append(@, [status |-> item.toString, date |-> created,
                                                  author |-> author])
                                  ELSE @,
                !.assignments = IF field = "assignee" THEN Append(@, change) ELSE @,
                !.assignmentHistory = IF field = "assignee"
                                      THEN Append(@, [assignee |-> item.toString,
                                                      date |-> created, author |-> author])
                                      ELSE @]
        ELSE IF isNoise
        THEN [acc EXCEPT !.noiseChanges = @ + 1]
        ELSE acc

RECURSIVE ProcessItems(_, _, _)
ProcessItems(acc, entry, items) ==
    IF Len(items) = 0 THEN acc
    ELSE ProcessItems(ProcessItem(acc, entry, Head(items)), entry, Tail(items))

\* Body of the outer loop: one changelog entry
ProcessEntry(acc, entry) ==
    ProcessItems([acc EXCEPT !.totalChanges = @ + 1], entry, entry.items)

RECURSIVE ProcessEntries(_, _)
ProcessEntries(acc, changelog) ==
    IF Len(changelog) = 0 THEN acc
    ELSE ProcessEntries(ProcessEntry(acc, Head(changelog)), Tail(changelog))

\* analyzeChangelog(issueId), given the tracker's response and histories, at time now
analyzeChangelog(response, hs, now) ==
    LET changelog == fetchChangelog(response, hs)
    IN  IF Len(changelog) = 0 THEN EmptyAnalysis
        ELSE LET acc == ProcessEntries(NewAnalysis, changelog)
             IN  IF detectPatternsThrows(acc.statusChanges)
                 THEN NullAnalysis
                 ELSE LET patterns == detectPatterns(acc.statusChanges, acc.assignments, now)
                      IN  [kind |-> "analysis",
                           lastMeaningfulUpdate |-> acc.lastMeaningfulUpdate,
                           lastMeaningfulUpdateBy |-> acc.lastMeaningfulUpdateBy,
                           totalChanges |-> acc.totalChanges,
                           meaningfulChanges |-> acc.meaningfulChanges,
                           noiseChanges |-> acc.noiseChanges,
                           patterns |-> patterns,
                           timeline |-> acc.timeline,
                           statusHistory |-> acc.statusHistory,
                           assignmentHistory |-> acc.assignmentHistory,
                           thrashing |-> \E i \in 1..Len(patterns) :
                                            patterns[i].type = "STATUS_THRASHING"]

\* Faulty variant: the analysis is not consulted
LastActivityIsUpdated(updated, changelogAnalysis) == updated

\* getRealLastActivity(issue, changelogAnalysis)
getRealLastActivity(updated, changelogAnalysis) ==
    IF changelogAnalysis.kind = "null" THEN updated
    ELSE IF changelogAnalysis.lastMeaningfulUpdate # NoDate
    THEN changelogAnalysis.lastMeaningfulUpdate
    ELSE updated

-----------------------------------------------------------------------------
(* configManager.js *)

THRESHOLDS_KEY == "status-thresholds"
SETTINGS_KEY == "general-settings"

DEFAULT_THRESHOLDS ==
    [s \in {"In Progress", "In Review", "Code Review", "To Do", "Backlog", "Blocked",
            "Testing", "QA", "default"} |->
        CASE s = "In Progress" -> 48
          [] s = "In Review" -> 24
          [] s = "Code Review" -> 24
          [] s = "To Do" -> 168
          [] s = "Backlog" -> 336
          [] s = "Blocked" -> 12
          [] s = "Testing" -> 48
          [] s = "QA" -> 48
          [] s = "default" -> 72]

DefaultFeatures ==
    [detectNoActivity |-> TRUE, detectNoHumanComments |-> TRUE, detectUnassigned |-> TRUE,
     detectBlockers |-> TRUE, detectAssignedNotProgressing |-> TRUE, postComments |-> TRUE,
     postStallWarnings |-> TRUE, postEncouragement |-> FALSE,
     useChangelogAnalysis |-> TRUE, useContextualSuggestions |-> TRUE]

getDefaultSettings ==
    [noHumanCommentThreshold |-> 96, commentCooldownHours |-> 24, maxIssuesPerRun |-> 50,
     features |-> DefaultFeatures]

\* The stored object under CONFIG_KEY: a function on a subset of the two keys.
\* NoConfig is the empty store (storage.get returns undefined).
NoConfig == [exists |-> FALSE, value |-> <<>>]
Stored(obj) == [exists |-> TRUE, value |-> obj]

\* config[key] is truthy
HasKey(config, key) == config.exists /\ key \in DOMAIN config.value

\* getThresholds() in an instance whose DEFAULT_THRESHOLDS object is defaults;
\* storageOk = FALSE is a storage.get that rejects
getThresholdsFrom(defaults, config, storageOk) ==
    IF ~storageOk THEN defaults
    ELSE IF ~HasKey(config, THRESHOLDS_KEY) THEN defaults
    ELSE config.value[THRESHOLDS_KEY]

\* getThresholds() in a fresh instance
getThresholds(config, storageOk) == getThresholdsFrom(DEFAULT_THRESHOLDS, config, storageOk)

\* thresholds[name], with 0 standing for a missing (falsy) entry
ThresholdEntry(thresholds, name) == IF name \in DOMAIN thresholds THEN thresholds[name] ELSE 0

\* Faulty variant: a status without an entry goes straight to the constant
ThresholdWithoutDefault(thresholds, status) ==
    IF ThresholdEntry(thresholds, status) # 0 THEN ThresholdEntry(thresholds, status)
    ELSE 72

\* thresholds[status] || thresholds["default"] || 72
ThresholdOrFallback(thresholds, status) ==
    IF ThresholdEntry(thresholds, status) # 0 THEN ThresholdEntry(thresholds, status)
    ELSE IF ThresholdEntry(thresholds, "default") # 0 THEN ThresholdEntry(thresholds, "default")
    ELSE 72

getThresholdForStatus(config, storageOk, status) ==
    ThresholdOrFallback(getThresholds(config, storageOk), status)

getSettings(config, storageOk) ==
    IF ~storageOk THEN getDefaultSettings
    ELSE IF ~HasKey(config, SETTINGS_KEY) THEN getDefaultSettings
    ELSE config.value[SETTINGS_KEY]

\* config[key] = value on the object read from the store ({} when there is none)
PutKey(config, key, value) ==
    Stored([k \in DOMAIN config.value \cup {key} |-> IF k = key THEN value ELSE config.value[k]])

\* obj[name] = value
SetEntry(obj, name, value) ==
    [k \in DOMAIN obj \cup {name} |-> IF k = name THEN value ELSE obj[k]]

\* The read-modify-write of setThresholds / setSettings: storage.get, storage.set and
\* the verification storage.get; failAt names the call that rejects ("none": none)
WriteKey(config, key, value, failAt) ==
    IF failAt \in {"get", "set"} THEN [store |-> config, success |-> FALSE]
    ELSE [store |-> PutKey(config, key, value), success |-> failAt = "none"]

setThresholds(config, thresholds, failAt) == WriteKey(config, THRESHOLDS_KEY, thresholds, failAt)

setSettings(config, settings, failAt) == WriteKey(config, SETTINGS_KEY, settings, failAt)

\* setThresholdForStatus(status, hours): getThresholds() gives the stored thresholds or
\* the DEFAULT_THRESHOLDS object itself, which the assignment then changes in place
setThresholdForStatus(defaults, config, status, hours, readOk, failAt) ==
    LET thresholds == SetEntry(getThresholdsFrom(defaults, config, readOk), status, hours)
        written == setThresholds(config, thresholds, failAt)
    IN  [store |-> written.store, success |-> written.success,
         defaults |-> IF readOk /\ HasKey(config, THRESHOLDS_KEY) THEN defaults ELSE thresholds]

\* resetThresholds(): stores a copy of DEFAULT_THRESHOLDS; no verification read
resetThresholds(defaults, config, failAt) ==
    IF failAt = "none" THEN [store |-> PutKey(config, THRESHOLDS_KEY, defaults), success |-> TRUE]
    ELSE [store |-> config, success |-> FALSE]

\* Faulty variant: the defaults are exported whatever is stored
ExportDefaults(defaults, config, getOk) ==
    IF ~getOk THEN NoConfig
    ELSE Stored([k \in {THRESHOLDS_KEY, SETTINGS_KEY} |->
                    IF k = THRESHOLDS_KEY THEN defaults ELSE getDefaultSettings])

\* exportConfig(): the stored object, the defaults when there is none, null (NoConfig)
\* when storage.get rejects
exportConfig(defaults, config, getOk) ==
    IF ~getOk THEN NoConfig
    ELSE IF config.exists THEN config
    ELSE Stored([k \in {THRESHOLDS_KEY, SETTINGS_KEY} |->
                    IF k = THRESHOLDS_KEY THEN defaults ELSE getDefaultSettings])

\* importConfig(configJson): the object replaces whatever is stored
importConfig(config, configJson, setOk) ==
    IF setOk THEN [store |-> configJson, success |-> TRUE]
    ELSE [store |-> config, success |-> FALSE]

NoOp == [name |-> "none"]

\* No configuration operation has run in a fresh instance over an empty store
ConfigIdle ==
    /\ store = NoConfig
    /\ defaultThresholds = DEFAULT_THRESHOLDS
    /\ configOp = NoOp

\* No setThresholds / setSettings call is in flight
NoCalls == calls = <<>>

\* No comment on the issue, no event pending, a fresh instance of index.js
CommentsIdle ==
    /\ thread = <<>>
    /\ clock = 0
    /\ appAccountId = Null
    /\ events = <<>>
    /\ lastRun = NoOp

-----------------------------------------------------------------------------
(* contextAdvisor.js *)

\* A suggestion: its type, action text and confidence (icon, rationale and the
\* referenced users play no part in deduplication or ranking)
Suggestion(type, action, confidence) ==
    [type |-> type, action |-> action, confidence |-> confidence]

RECURSIVE BlockingIssues(_)
BlockingIssues(issueLinks) ==
    IF Len(issueLinks) = 0 THEN <<>>
    ELSE LET link == Head(issueLinks)
         IN  (IF link.type.inward = "is blocked by" /\ link.outwardIssue.present
              THEN <<link.outwardIssue>> ELSE <<>>)
             \o (IF link.type.name = "Blocks" /\ link.inwardIssue.present
                 THEN <<link.inwardIssue>> ELSE <<>>)
             \o BlockingIssues(Tail(issueLinks))

\* getBlockingIssues(issueId): l = [response, issueLinks]
getBlockingIssues(l) == IF l.response # "ok" THEN <<>> ELSE BlockingIssues(l.issueLinks)

\* getWatchers(issueId): w = [response, watchers]; "malformed" is a success
\* response whose watchers value is not an array
getWatchers(w) == IF w.response = "ok" THEN w.watchers ELSE <<>>
WatchersMalformed(w) == w.response = "malformed"

RECURSIVE LinkedIssues(_)
LinkedIssues(issueLinks) ==
    IF Len(issueLinks) = 0 THEN <<>>
    ELSE LET link == Head(issueLinks)
         IN  (IF link.outwardIssue.present
              THEN <<[key |-> link.outwardIssue.key, type |-> link.type.outward,
                      status |-> link.outwardIssue.status]>> ELSE <<>>)
             \o (IF link.inwardIssue.present
                 THEN <<[key |-> link.inwardIssue.key, type |-> link.type.inward,
                         status |-> link.inwardIssue.status]>> ELSE <<>>)
             \o LinkedIssues(Tail(issueLinks))

\* getLinkedIssues(issueId)
getLinkedIssues(l) == IF l.response # "ok" THEN <<>> ELSE LinkedIssues(l.issueLinks)

getUnassignedSuggestions(watchers, reporter) ==
    (IF reporter.present /\ reporter.active
     THEN <<Suggestion("ASSIGN_TO_REPORTER", "Assign to reporter: @" \o reporter.displayName,
                       "MEDIUM")>>
     ELSE <<>>)
    \o (IF Len(watchers) > 0
        THEN <<Suggestion("ASSIGN_TO_WATCHER", "Assign to watcher: @" \o watchers[1].displayName,
                          "MEDIUM")>>
        ELSE <<>>)
    \o <<Suggestion("ASSIGN_ISSUE", "Assign this issue to someone on the team", "HIGH")>>

\* watchers.filter((w) => w.accountId !== assignee?.accountId)
OtherThan(watchers, assignee) ==
    SelectSeq(watchers, LAMBDA w : ~assignee.present \/ w.accountId # assignee.accountId)

getNoActivitySuggestions(assignee, watchers, status) ==
    (IF assignee.present /\ assignee.active
     THEN <<Suggestion("PING_ASSIGNEE", "Ping assignee: @" \o assignee.displayName, "HIGH")>>
     ELSE <<>>)
    \o (IF status = "In Review" \/ status = "Code Review"
        THEN LET reviewers == OtherThan(watchers, assignee)
             IN  IF Len(reviewers) > 0
                 THEN <<Suggestion("PING_REVIEWERS",
                                   "Ping reviewers: "
                                     \o join(MapSeq(SeqTake(reviewers, 3),
                                                    LAMBDA r : "@" \o r.displayName), ", "),
                                   "HIGH")>>
                 ELSE <<>>
        ELSE <<>>)
    \o (IF status = "To Do" \/ status = "Backlog"
        THEN <<Suggestion("REPRIORITIZE", "Review priority and sprint assignment", "MEDIUM")>>
        ELSE <<>>)

getNotProgressingSuggestions(assignee, watchers) ==
    (IF assignee.present
     THEN <<Suggestion("CHECK_WORKLOAD", "Check " \o assignee.displayName \o "'s workload",
                       "HIGH"),
            Suggestion("OFFER_HELP", "Offer help to @" \o assignee.displayName, "MEDIUM")>>
     ELSE <<>>)
    \o (LET otherTeamMembers == OtherThan(watchers, assignee)
        IN  IF Len(otherTeamMembers) > 0
            THEN <<Suggestion("CONSIDER_REASSIGNMENT",
                              "Consider reassigning to @" \o otherTeamMembers[1].displayName,
                              "LOW")>>
            ELSE <<>>)

getBlockerSuggestions(blockers, blockerKeys) ==
    IF Len(blockers) > 0
    THEN MapSeq(blockers,
                LAMBDA b : Suggestion("RESOLVE_BLOCKER",
                                      "Check blocker " \o b.key \o " ("
                                        \o (IF b.status = "" THEN "Unknown" ELSE b.status)
                                        \o ")",
                                      "CRITICAL"))
    ELSE MapSeq(blockerKeys,
                LAMBDA k : Suggestion("RESOLVE_BLOCKER", "Check blocker " \o k, "CRITICAL"))

getExplicitBlockedSuggestions(blockers) ==
    <<Suggestion("DOCUMENT_BLOCKER", "Document what's blocking this issue", "HIGH")>>
    \o (IF Len(blockers) = 0
        THEN <<Suggestion("LINK_BLOCKER", "Link the blocking issue(s) in Jira", "HIGH")>>
        ELSE <<>>)
    \o <<Suggestion("ESCALATE_BLOCKER", "Escalate to team lead or stakeholder", "MEDIUM")>>

getNoInteractionSuggestions(assignee, reporter) ==
    (IF reporter.present
     THEN <<Suggestion("ASK_REPORTER", "Ask " \o reporter.displayName \o " for clarification",
                       "MEDIUM")>>
     ELSE <<>>)
    \o (IF assignee.present /\ (~reporter.present \/ assignee.accountId # reporter.accountId)
        THEN <<Suggestion("REQUEST_UPDATE",
                          "Request status update from @" \o assignee.displayName, "HIGH")>>
        ELSE <<>>)
    \o <<Suggestion("TEAM_DISCUSSION", "Bring this up in standup or team meeting", "MEDIUM")>>

getNoCommentsSuggestions(reporter) ==
    <<Suggestion("ADD_CONTEXT", "Add acceptance criteria or requirements", "HIGH")>>
    \o (IF reporter.present
        THEN <<Suggestion("CLARIFY_REQUIREMENTS",
                          "Ask " \o reporter.displayName \o " to clarify requirements",
                          "MEDIUM")>>
        ELSE <<>>)

getPatternSuggestions(pattern) ==
    CASE pattern.type = "STATUS_THRASHING" ->
            <<Suggestion("TEAM_SYNC", "Schedule quick team sync to align on direction", "HIGH")>>
      [] pattern.type = "STATUS_PING_PONG" ->
            <<Suggestion("CLARIFY_WORKFLOW", "Clarify the workflow or definition of done",
                         "HIGH")>>
      [] pattern.type = "ASSIGNMENT_CHURNING" ->
            <<Suggestion("ASSIGN_OWNER", "Assign a clear owner and stick with them", "HIGH")>>
      [] pattern.type = "MULTIPLE_REOPENS" ->
            <<Suggestion("ROOT_CAUSE", "Investigate root cause of why this keeps reopening",
                         "CRITICAL")>>
      [] OTHER -> <<>>

getLinkedIssueSuggestions(linkedIssues) ==
    LET openDependencies ==
            SelectSeq(linkedIssues,
                      LAMBDA l : l.type = "depends on" /\ l.status # "Done" /\ l.status # "Closed")
    IN  IF Len(openDependencies) > 0
        THEN <<Suggestion("CHECK_DEPENDENCIES",
                          "Check dependencies: "
                            \o join(MapSeq(openDependencies, LAMBDA d : d.key), ", "),
                          "HIGH")>>
        ELSE <<>>

\* The key of the seen-set: `${s.type}-${s.action}`
DedupKey(sug) == sug.type \o "-" \o sug.action

\* Faulty variant: nothing is removed
KeepAllSuggestions(suggestions) == suggestions

RECURSIVE deduplicateSuggestions(_)
deduplicateSuggestions(suggestions) ==
    IF Len(suggestions) = 0 THEN <<>>
    ELSE LET init == deduplicateSuggestions(SubSeq(suggestions, 1, Len(suggestions) - 1))
             last == suggestions[Len(suggestions)]
         IN  IF \E i \in 1..(Len(suggestions) - 1) : DedupKey(suggestions[i]) = DedupKey(last)
             THEN init
             ELSE Append(init, last)

confidenceOrder(c) ==
    CASE c = "CRITICAL" -> 4 [] c = "HIGH" -> 3 [] c = "MEDIUM" -> 2 [] c = "LOW" -> 1

\* Faulty variant: the order of generation is kept
KeepGenerationOrder(suggestions) == suggestions

\* suggestions.sort((a, b) => confidenceOrder[b.confidence] - confidenceOrder[a.confidence]):
\* stable, by confidence descending
RECURSIVE prioritizeSuggestions(_)
InsertByConfidence(sorted, sug) ==
    LET k == Cardinality({i \in 1..Len(sorted) :
                            confidenceOrder(sorted[i].confidence)
                              >= confidenceOrder(sug.confidence)})
    IN  SubSeq(sorted, 1, k) \o <<sug>> \o SubSeq(sorted, k + 1, Len(sorted))
prioritizeSuggestions(suggestions) ==
    IF Len(suggestions) = 0 THEN <<>>
    ELSE InsertByConfidence(prioritizeSuggestions(SubSeq(suggestions, 1, Len(suggestions) - 1)),
                            suggestions[Len(suggestions)])

\* The suggestions one stall reason contributes
ReasonSuggestions(reason, issue, blockers, watchers) ==
    CASE reason.type = "UNASSIGNED_ACTIVE" ->
            getUnassignedSuggestions(watchers, issue.reporter)
      [] reason.type = "NO_ACTIVITY" ->
            getNoActivitySuggestions(issue.assignee, watchers, issue.status)
      [] reason.type = "ASSIGNED_NOT_PROGRESSING" ->
            getNotProgressingSuggestions(issue.assignee, watchers)
      [] reason.type = "HAS_BLOCKERS" -> getBlockerSuggestions(blockers, reason.blockers)
      [] reason.type = "STATUS_BLOCKED" -> getExplicitBlockedSuggestions(blockers)
      [] reason.type = "NO_HUMAN_INTERACTION" ->
            getNoInteractionSuggestions(issue.assignee, issue.reporter)
      [] reason.type = "NO_COMMENTS" -> getNoCommentsSuggestions(issue.reporter)
      [] OTHER -> <<>>

\* A watchers value that is no array makes watchers.filter throw
ReasonThrows(reason, issue, w) ==
    /\ WatchersMalformed(w)
    /\ \/ reason.type = "ASSIGNED_NOT_PROGRESSING"
       \/ reason.type = "NO_ACTIVITY"
            /\ (issue.status = "In Review" \/ issue.status = "Code Review")

RECURSIVE Flatten(_)
Flatten(ss) == IF Len(ss) = 0 THEN <<>> ELSE Head(ss) \o Flatten(Tail(ss))

\* suggestions.push(...F(x)) for each x of s
FlatMap(s, F(_)) == Flatten(MapSeq(s, F))

\* All suggestions generated, before deduplication
RawSuggestions(issue, reasons, changelogAnalysis, links, w) ==
    LET blockers == getBlockingIssues(links.blocking)
        watchers == getWatchers(w)
        linkedIssues == getLinkedIssues(links.linked)
    IN  FlatMap(reasons, LAMBDA r : ReasonSuggestions(r, issue, blockers, watchers))
        \o (IF changelogAnalysis.kind = "analysis"
            THEN FlatMap(changelogAnalysis.patterns, getPatternSuggestions)
            ELSE <<>>)
        \o (IF Len(linkedIssues) > 0 THEN getLinkedIssueSuggestions(linkedIssues) ELSE <<>>)
        \o (IF issue.priority = "Critical" \/ issue.priority = "Highest"
            THEN <<Suggestion("PRIORITY_ESCALATION", "Escalate to team lead or product owner",
                              "HIGH")>>
            ELSE <<>>)

generateContextualSuggestionsThrows(issue, reasons, w) ==
    \E i \in 1..Len(reasons) : ReasonThrows(reasons[i], issue, w)

\* generateContextualSuggestions(issue, stallInfo, changelogAnalysis)
generateContextualSuggestions(issue, reasons, changelogAnalysis, links, w) ==
    LET suggestions == RawSuggestions(issue, reasons, changelogAnalysis, links, w)
        uniqueSuggestions == deduplicateSuggestions(suggestions)
        prioritized == prioritizeSuggestions(uniqueSuggestions)
    IN  SeqTake(prioritized, 5)

-----------------------------------------------------------------------------
(* telemetry.js: the stall classifier *)

NoUser == [present |-> FALSE, displayName |-> "", accountId |-> "", active |-> FALSE,
           accountType |-> ""]
User(name, id, active) ==
    [present |-> TRUE, displayName |-> name, accountId |-> id, active |-> active,
     accountType |-> "atlassian"]

\* Math.floor of a duration in hours / in days
FloorHours(ticks) == ticks \div TicksPerHour
FloorDays(ticks) == ticks \div (24 * TicksPerHour)

\* getLastHumanComment(issueId): c = [response, comments]; comments newest first
NoComment == [found |-> FALSE, created |-> NoDate, author |-> Null]

getLastHumanComment(c) ==
    IF c.response = "throw" THEN NoComment
    ELSE IF c.response # "ok" THEN NoComment
    ELSE LET humanComments ==
                 SelectSeq(c.comments,
                           LAMBDA m : m.author.present /\ m.author.accountType = "atlassian"
                                      /\ m.author.active)
         IN  IF Len(humanComments) > 0
             THEN [found |-> TRUE, created |-> humanComments[1].created,
                   author |-> humanComments[1].author.displayName]
             ELSE NoComment

\* An issue link: the link type and the issue at its inward or outward end
NoIssue == [present |-> FALSE, key |-> "", status |-> ""]
Linked(key, status) == [present |-> TRUE, key |-> key, status |-> status]

RECURSIVE BlockerKeys(_)
BlockerKeys(issueLinks) ==
    IF Len(issueLinks) = 0 THEN <<>>
    ELSE LET link == Head(issueLinks)
         IN  (IF link.type.name = "Blocks" /\ link.inwardIssue.present
              THEN <<link.inwardIssue.key>> ELSE <<>>)
             \o (IF link.type.inward = "is blocked by" /\ link.outwardIssue.present
                 THEN <<link.outwardIssue.key>> ELSE <<>>)
             \o BlockerKeys(Tail(issueLinks))

\* Faulty variant: the links are read whatever the response
checkForBlockersUnguarded(l) ==
    LET blockers == BlockerKeys(l.issueLinks)
    IN  [isBlocked |-> Len(blockers) > 0, count |-> Len(blockers), blockers |-> blockers]

\* checkForBlockers(issueId): l = [response, issueLinks]
checkForBlockers(l) ==
    IF l.response # "ok" THEN [isBlocked |-> FALSE, count |-> 0, blockers |-> <<>>]
    ELSE LET blockers == BlockerKeys(l.issueLinks)
         IN  [isBlocked |-> Len(blockers) > 0, count |-> Len(blockers), blockers |-> blockers]

SeverityOrder(sev) ==
    CASE sev = "CRITICAL" -> 4 [] sev = "HIGH" -> 3 [] sev = "MEDIUM" -> 2 [] sev = "LOW" -> 1

RECURSIVE HighestFrom(_, _)
HighestFrom(highest, reasons) ==
    IF Len(reasons) = 0 THEN highest
    ELSE HighestFrom(IF SeverityOrder(Head(reasons).severity) > SeverityOrder(highest)
                     THEN Head(reasons).severity ELSE highest,
                     Tail(reasons))

\* Faulty variant: the severity of the first reason
SeverityOfFirstReason(reasons) == IF Len(reasons) = 0 THEN "LOW" ELSE reasons[1].severity

getHighestSeverity(reasons) == HighestFrom("LOW", reasons)

\* Array.prototype.find: the first element passing the test
FirstWith(s, Test(_)) == s[CHOOSE i \in 1..Len(s) : Test(s[i]) /\ \A j \in 1..(i - 1) : ~Test(s[j])]

\* Faulty variant: always quotes the first reason of the list
SummaryOfFirstReason(reasons) ==
    IF Len(reasons) = 0 THEN "No stall detected"
    ELSE LET criticalCount == Len(SelectSeq(reasons, LAMBDA r : r.severity = "CRITICAL"))
             highCount == Len(SelectSeq(reasons, LAMBDA r : r.severity = "HIGH"))
         IN  IF criticalCount > 0
             THEN "Critical: " \o reasons[1].message
             ELSE IF highCount > 0
             THEN "High Priority: " \o reasons[1].message
             ELSE "Attention Needed: " \o reasons[1].message

generateSummary(reasons) ==
    IF Len(reasons) = 0 THEN "No stall detected"
    ELSE LET criticalCount == Len(SelectSeq(reasons, LAMBDA r : r.severity = "CRITICAL"))
             highCount == Len(SelectSeq(reasons, LAMBDA r : r.severity = "HIGH"))
         IN  IF criticalCount > 0
             THEN "Critical: " \o FirstWith(reasons, LAMBDA r : r.severity = "CRITICAL").message
             ELSE IF highCount > 0
             THEN "High Priority: " \o FirstWith(reasons, LAMBDA r : r.severity = "HIGH").message
             ELSE "Attention Needed: " \o reasons[1].message

Insight(reason) ==
    CASE reason.type = "NO_ACTIVITY" ->
            <<"Consider updating the issue or moving it to a different status">>
      [] reason.type = "NO_HUMAN_INTERACTION" ->
            <<"Reach out to " \o (IF reason.lastAuthor = Null \/ reason.lastAuthor = ""
                                  THEN "the team" ELSE reason.lastAuthor) \o " for an update">>
      [] reason.type = "NO_COMMENTS" ->
            <<"Add a comment to start the conversation or clarify requirements">>
      [] reason.type = "ASSIGNED_NOT_PROGRESSING" ->
            <<"Check with " \o reason.assignee
              \o " if they need help or if priorities have changed">>
      [] reason.type = "UNASSIGNED_ACTIVE" ->
            <<"Assign this issue to someone to move it forward">>
      [] reason.type = "HAS_BLOCKERS" ->
            <<"Resolve blockers first: " \o join(reason.blockers, ", ")>>
      [] reason.type = "STATUS_BLOCKED" ->
            <<"Identify and document what is blocking this issue, then work to resolve it">>
      [] OTHER -> <<>>

RECURSIVE Insights(_)
Insights(reasons) ==
    IF Len(reasons) = 0 THEN <<>> ELSE Insight(Head(reasons)) \o Insights(Tail(reasons))

generateActionableInsights(reasons) == Distinct(Insights(reasons))

\* The issue-links request, as one of its three callers sees it
LinksView(w, r) == [response |-> r, issueLinks |-> w.issueLinks]

\* Check 1: time since last update
\* Faulty variant: the threshold itself already counts as exceeded
NoActivityAtThreshold(settings, threshold, status, timeSinceUpdate) ==
    IF settings.features.detectNoActivity /\ timeSinceUpdate >= Hours(threshold)
    THEN <<[type |-> "NO_ACTIVITY",
            severity |-> IF timeSinceUpdate >= Hours(threshold * 2) THEN "HIGH" ELSE "MEDIUM",
            message |-> "No activity in '" \o status \o "' for "
                        \o ToString(FloorHours(timeSinceUpdate))
                        \o " hours (threshold: " \o ToString(threshold) \o "h)",
            hours |-> FloorHours(timeSinceUpdate),
            threshold |-> threshold]>>
    ELSE <<>>

NoActivityReason(settings, threshold, status, timeSinceUpdate) ==
    IF settings.features.detectNoActivity /\ timeSinceUpdate > Hours(threshold)
    THEN <<[type |-> "NO_ACTIVITY",
            severity |-> IF timeSinceUpdate > Hours(threshold * 2) THEN "HIGH" ELSE "MEDIUM",
            message |-> "No activity in '" \o status \o "' for "
                        \o ToString(FloorHours(timeSinceUpdate))
                        \o " hours (threshold: " \o ToString(threshold) \o "h)",
            hours |-> FloorHours(timeSinceUpdate),
            threshold |-> threshold]>>
    ELSE <<>>

\* Faulty variant: a comment exactly as old as the threshold already counts
CommentReasonAtThreshold(settings, lastHumanComment, issueAge, now) ==
    IF ~settings.features.detectNoHumanComments THEN <<>>
    ELSE IF lastHumanComment.found
    THEN IF now - lastHumanComment.created >= Hours(settings.noHumanCommentThreshold)
         THEN <<[type |-> "NO_HUMAN_INTERACTION",
                 severity |-> "MEDIUM",
                 message |-> "No human comments for "
                             \o ToString(FloorHours(now - lastHumanComment.created))
                             \o " hours (last by " \o lastHumanComment.author \o ")",
                 hours |-> FloorHours(now - lastHumanComment.created),
                 lastAuthor |-> lastHumanComment.author]>>
         ELSE <<>>
    ELSE IF issueAge >= Hours(2 * 24)
    THEN <<[type |-> "NO_COMMENTS",
            severity |-> "MEDIUM",
            message |-> "Issue is " \o ToString(FloorDays(issueAge))
                        \o " days old with no comments",
            days |-> FloorDays(issueAge)]>>
    ELSE <<>>

\* Check 2: time since last human comment
CommentReason(settings, lastHumanComment, issueAge, now) ==
    IF ~settings.features.detectNoHumanComments THEN <<>>
    ELSE IF lastHumanComment.found
    THEN LET timeSinceComment == now - lastHumanComment.created
         IN  IF timeSinceComment > Hours(settings.noHumanCommentThreshold)
             THEN <<[type |-> "NO_HUMAN_INTERACTION",
                     severity |-> "MEDIUM",
                     message |-> "No human comments for "
                                 \o ToString(FloorHours(timeSinceComment))
                                 \o " hours (last by " \o lastHumanComment.author \o ")",
                     hours |-> FloorHours(timeSinceComment),
                     lastAuthor |-> lastHumanComment.author]>>
             ELSE <<>>
    ELSE IF issueAge > Hours(2 * 24)
    THEN <<[type |-> "NO_COMMENTS",
            severity |-> "MEDIUM",
            message |-> "Issue is " \o ToString(FloorDays(issueAge))
                        \o " days old with no comments",
            days |-> FloorDays(issueAge)]>>
    ELSE <<>>

\* Faulty variant: the assignee is not looked at
NotProgressingAnyAssignee(assignee, status, threshold, timeSinceUpdate) ==
    IF status = "In Progress" /\ timeSinceUpdate > Hours(threshold)
    THEN <<[type |-> "ASSIGNED_NOT_PROGRESSING",
            severity |-> "HIGH",
            message |-> "Assigned to " \o assignee.displayName \o " but no progress in "
                        \o ToString(FloorHours(timeSinceUpdate)) \o " hours",
            assignee |-> assignee.displayName,
            hours |-> FloorHours(timeSinceUpdate)]>>
    ELSE <<>>

\* Check 3: assigned but not progressing
NotProgressingReason(assignee, status, threshold, timeSinceUpdate) ==
    IF assignee.present /\ status = "In Progress" /\ timeSinceUpdate > Hours(threshold)
    THEN <<[type |-> "ASSIGNED_NOT_PROGRESSING",
            severity |-> "HIGH",
            message |-> "Assigned to " \o assignee.displayName \o " but no progress in "
                        \o ToString(FloorHours(timeSinceUpdate)) \o " hours",
            assignee |-> assignee.displayName,
            hours |-> FloorHours(timeSinceUpdate)]>>
    ELSE <<>>

\* Check 4: unassigned in active status
UnassignedReason(settings, assignee, status) ==
    IF /\ settings.features.detectUnassigned
       /\ ~assignee.present
       /\ (status = "In Progress" \/ status = "In Review")
    THEN <<[type |-> "UNASSIGNED_ACTIVE",
            severity |-> "HIGH",
            message |-> "Issue is '" \o status \o "' but has no assignee",
            status |-> status]>>
    ELSE <<>>

\* Check 5: blocked or has blockers
BlockersReason(settings, hasBlockers) ==
    IF settings.features.detectBlockers /\ hasBlockers.isBlocked
    THEN <<[type |-> "HAS_BLOCKERS",
            severity |-> "CRITICAL",
            message |-> "Blocked by " \o ToString(hasBlockers.count) \o " issue(s): "
                        \o join(hasBlockers.blockers, ", "),
            blockers |-> hasBlockers.blockers,
            count |-> hasBlockers.count]>>
    ELSE <<>>

\* Faulty variant: the status name is compared as written
StatusBlockedExact(status, timeSinceUpdate) ==
    IF status = "Blocked"
    THEN <<[type |-> "STATUS_BLOCKED",
            severity |-> "CRITICAL",
            message |-> "Issue status is 'Blocked' for "
                        \o ToString(FloorHours(timeSinceUpdate)) \o " hours",
            hours |-> FloorHours(timeSinceUpdate)]>>
    ELSE <<>>

\* Check 6: status is explicitly "Blocked"
StatusBlockedReason(status, timeSinceUpdate) ==
    IF toLowerCase(status) = "blocked"
    THEN <<[type |-> "STATUS_BLOCKED",
            severity |-> "CRITICAL",
            message |-> "Issue status is 'Blocked' for "
                        \o ToString(FloorHours(timeSinceUpdate)) \o " hours",
            hours |-> FloorHours(timeSinceUpdate)]>>
    ELSE <<>>

\* Faulty variant: only patterns of severity HIGH become reasons
SeverePatternReasons(changelogAnalysis) ==
    IF changelogAnalysis.kind = "analysis"
    THEN MapSeq(SelectSeq(changelogAnalysis.patterns, LAMBDA pattern : pattern.severity = "HIGH"),
                LAMBDA pattern : [type |-> pattern.type, severity |-> pattern.severity,
                                  message |-> pattern.message, pattern |-> TRUE,
                                  details |-> pattern])
    ELSE <<>>

\* Changelog pattern detections, promoted to reasons
PatternReasons(changelogAnalysis) ==
    IF changelogAnalysis.kind = "analysis"
    THEN MapSeq(changelogAnalysis.patterns,
                LAMBDA pattern : [type |-> pattern.type, severity |-> pattern.severity,
                                  message |-> pattern.message, pattern |-> TRUE,
                                  details |-> pattern])
    ELSE <<>>

Threw == [kind |-> "threw"]

\* Faulty variant: one reason alone does not make an issue stalled
SeveralReasons(stallReasons) == Len(stallReasons) > 1

\* const isStalled = stallReasons.length > 0
StalledVerdict(stallReasons) == Len(stallReasons) > 0

\* isStalled(issue) in the world w (the issue, the stored configuration and what
\* the tracker answers to each request) at time now
isStalled(w, now) ==
    LET settings == getSettings(w.config, w.settingsStorageOk)
        issue == w.issue
        status == issue.status
        assignee == issue.assignee
        issueAge == now - issue.created
    IN  IF "features" \notin DOMAIN settings THEN Threw
        ELSE
        LET changelogAnalysis ==
                IF settings.features.useChangelogAnalysis
                THEN analyzeChangelog(w.changelog.response, w.changelog.histories, now)
                ELSE NullAnalysis
            lastActivity ==
                IF changelogAnalysis.kind # "null"
                THEN getRealLastActivity(issue.updated, changelogAnalysis)
                ELSE issue.updated
            timeSinceUpdate == now - lastActivity
            stallReasons ==
                NoActivityReason(settings,
                                 getThresholdForStatus(w.config, w.thresholdsStorageOk, status),
                                 status, timeSinceUpdate)
                \o CommentReason(settings, getLastHumanComment(w.comments), issueAge, now)
                \o NotProgressingReason(assignee, status,
                                        getThresholdForStatus(w.config, w.thresholdsStorageOk,
                                                              "In Progress"),
                                        timeSinceUpdate)
                \o UnassignedReason(settings, assignee, status)
                \o BlockersReason(settings, checkForBlockers(LinksView(w, w.checkResponse)))
                \o StatusBlockedReason(status, timeSinceUpdate)
                \o PatternReasons(changelogAnalysis)
            stalled == StalledVerdict(stallReasons)
            links == [blocking |-> LinksView(w, w.blockingResponse),
                      linked |-> LinksView(w, w.linkedResponse)]
        IN  [kind |-> "result",
             isStalled |-> stalled,
             severity |-> getHighestSeverity(stallReasons),
             reasons |-> stallReasons,
             summary |-> generateSummary(stallReasons),
             actionableInsights |-> generateActionableInsights(stallReasons),
             changelogAnalysis |-> changelogAnalysis,
             contextualSuggestions |->
                 IF /\ stalled
                    /\ settings.features.useContextualSuggestions
                    /\ ~generateContextualSuggestionsThrows(issue, stallReasons, w.watchers)
                 THEN generateContextualSuggestions(issue, stallReasons, changelogAnalysis,
                                                    links, w.watchers)
                 ELSE <<>>]

-----------------------------------------------------------------------------
(* dashboardMetrics.js *)

getEmptyMetrics ==
    [kind |-> "metrics",
     totalIssues |-> 0, stalledIssues |-> 0, healthyIssues |-> 0,
     byStatus |-> <<>>, byAssignee |-> <<>>,
     bySeverity |-> [sev \in {"CRITICAL", "HIGH", "MEDIUM", "LOW"} |-> 0],
     stallReasons |-> <<>>,
     averageStallTime |-> 0, longestStalled |-> NullAnalysis, recentlyStalled |-> <<>>]

\* getIssueDetails(issueId): the full issue, or null (found = FALSE)
getIssueDetails(w) == [found |-> w.detailResponse = "ok", issue |-> w.issue]

ZeroCounter == [total |-> 0, stalled |-> 0, healthy |-> 0]

\* counters[name], created on first use
CounterOf(counters, name) == IF name \in DOMAIN counters THEN counters[name] ELSE ZeroCounter

SetCounter(counters, name, value) ==
    [k \in DOMAIN counters \cup {name} |-> IF k = name THEN value ELSE counters[k]]

BumpCounter(counters, name, field) ==
    SetCounter(counters, name,
               [CounterOf(counters, name) EXCEPT ![field] = @ + 1])

\* Faulty variant: every reason is counted twice
RECURSIVE CountReasonsTwice(_, _)
CountReasonsTwice(histogram, reasons) ==
    IF Len(reasons) = 0 THEN histogram
    ELSE LET t == Head(reasons).type
             n == IF t \in DOMAIN histogram THEN histogram[t] ELSE 0
         IN  CountReasonsTwice([k \in DOMAIN histogram \cup {t} |->
                                   IF k = t THEN n + 2 ELSE histogram[k]],
                               Tail(reasons))

\* metrics.stallReasons[type]++ for each reason
RECURSIVE CountReasons(_, _)
CountReasons(histogram, reasons) ==
    IF Len(reasons) = 0 THEN histogram
    ELSE LET t == Head(reasons).type
             n == IF t \in DOMAIN histogram THEN histogram[t] ELSE 0
         IN  CountReasons([k \in DOMAIN histogram \cup {t} |->
                              IF k = t THEN n + 1 ELSE histogram[k]],
                          Tail(reasons))

\* if (!metrics.longestStalled || hoursSinceUpdate > metrics.longestStalled.hoursSinceUpdate):
\* the exact hours of this issue against the floored hours of the stored item
IsLongerStalled(longestStalled, hoursSinceUpdate) ==
    \/ longestStalled.kind = "null"
    \/ hoursSinceUpdate > Hours(longestStalled.hoursSinceUpdate)

\* Faulty variant: an issue whose details could not be fetched counts as healthy
ProcessIssueCountingFailures(acc, w, stallInfo, now) ==
    LET issue == w.issue
        status == issue.status
        assignee == IF issue.assignee.present /\ issue.assignee.displayName # ""
                    THEN issue.assignee.displayName ELSE "Unassigned"
        hoursSinceUpdate == now - issue.updated
        counted == [acc EXCEPT
                      !.byStatus = BumpCounter(@, status, "total"),
                      !.byAssignee = BumpCounter(@, assignee, "total")]
        healthy == [counted EXCEPT
                      !.healthyIssues = @ + 1,
                      !.byStatus = BumpCounter(@, status, "healthy"),
                      !.byAssignee = BumpCounter(@, assignee, "healthy")]
    IN  IF ~getIssueDetails(w).found THEN healthy
        ELSE IF stallInfo.kind = "threw" THEN counted
        ELSE IF stallInfo.isStalled
        THEN LET stalledItem ==
                     [kind |-> "item", key |-> issue.key, status |-> status,
                      assignee |-> assignee,
                      hoursSinceUpdate |-> FloorHours(hoursSinceUpdate),
                      severity |-> stallInfo.severity,
                      reasons |-> MapSeq(stallInfo.reasons, LAMBDA r : r.type)]
             IN  [counted EXCEPT
                    !.stalledIssues = @ + 1,
                    !.byStatus = BumpCounter(@, status, "stalled"),
                    !.byAssignee = BumpCounter(@, assignee, "stalled"),
                    !.bySeverity[stallInfo.severity] = @ + 1,
                    !.totalStallTime = @ + hoursSinceUpdate,
                    !.stallReasons = CountReasons(@, stallInfo.reasons),
                    !.stalledIssuesList = Append(@, stalledItem),
                    !.longestStalled =
                        IF IsLongerStalled(@, hoursSinceUpdate) THEN stalledItem ELSE @]
        ELSE healthy

\* Body of the loop: one issue of the search result. acc is the metrics object plus
\* the two locals totalStallTime and stalledIssuesList; stallInfo is what isStalled
\* gives for the full issue.
ProcessIssue(acc, w, stallInfo, now) ==
    LET issue == w.issue
        status == issue.status
        assignee == IF issue.assignee.present /\ issue.assignee.displayName # ""
                    THEN issue.assignee.displayName ELSE "Unassigned"
        hoursSinceUpdate == now - issue.updated
        counted == [acc EXCEPT
                      !.byStatus = BumpCounter(@, status, "total"),
                      !.byAssignee = BumpCounter(@, assignee, "total")]
        fullIssue == getIssueDetails(w)
    IN  IF ~fullIssue.found THEN counted
        ELSE IF stallInfo.kind = "threw" THEN counted
        ELSE IF stallInfo.isStalled
        THEN LET stalledItem ==
                     [kind |-> "item", key |-> issue.key, status |-> status,
                      assignee |-> assignee,
                      hoursSinceUpdate |-> FloorHours(hoursSinceUpdate),
                      severity |-> stallInfo.severity,
                      reasons |-> MapSeq(stallInfo.reasons, LAMBDA r : r.type)]
             IN  [counted EXCEPT
                    !.stalledIssues = @ + 1,
                    !.byStatus = BumpCounter(@, status, "stalled"),
                    !.byAssignee = BumpCounter(@, assignee, "stalled"),
                    !.bySeverity[stallInfo.severity] = @ + 1,
                    !.totalStallTime = @ + hoursSinceUpdate,
                    !.stallReasons = CountReasons(@, stallInfo.reasons),
                    !.stalledIssuesList = Append(@, stalledItem),
                    !.longestStalled =
                        IF IsLongerStalled(@, hoursSinceUpdate) THEN stalledItem ELSE @]
        ELSE [counted EXCEPT
                !.healthyIssues = @ + 1,
                !.byStatus = BumpCounter(@, status, "healthy"),
                !.byAssignee = BumpCounter(@, assignee, "healthy")]

RECURSIVE ProcessIssues(_, _, _, _)
ProcessIssues(acc, issues, config, now) ==
    IF Len(issues) = 0 THEN acc
    ELSE ProcessIssues(ProcessIssue(acc, Head(issues),
                                    isStalled([Head(issues) EXCEPT !.config = config], now),
                                    now),
                       Tail(issues), config, now)

\* stalledIssuesList.sort((a, b) => a.hoursSinceUpdate - b.hoursSinceUpdate): stable, ascending
RECURSIVE SortByHoursAsc(_)
InsertAsc(sorted, item) ==
    LET k == Cardinality({i \in 1..Len(sorted) :
                            sorted[i].hoursSinceUpdate <= item.hoursSinceUpdate})
    IN  SubSeq(sorted, 1, k) \o <<item>> \o SubSeq(sorted, k + 1, Len(sorted))
SortByHoursAsc(items) ==
    IF Len(items) = 0 THEN <<>>
    ELSE InsertAsc(SortByHoursAsc(SubSeq(items, 1, Len(items) - 1)), items[Len(items)])

\* The metrics object and the locals before the loop
StartMetrics(total) ==
    [k \in DOMAIN getEmptyMetrics \cup {"totalStallTime", "stalledIssuesList"} |->
        IF k = "totalStallTime" THEN 0
        ELSE IF k = "stalledIssuesList" THEN <<>>
        ELSE IF k = "totalIssues" THEN total
        ELSE getEmptyMetrics[k]]

\* After the loop: the average stall time and the recently stalled issues
FinishMetrics(acc) ==
    [kind |-> "metrics",
     totalIssues |-> acc.totalIssues,
     stalledIssues |-> acc.stalledIssues,
     healthyIssues |-> acc.healthyIssues,
     byStatus |-> acc.byStatus,
     byAssignee |-> acc.byAssignee,
     bySeverity |-> acc.bySeverity,
     stallReasons |-> acc.stallReasons,
     averageStallTime |->
         IF acc.stalledIssues > 0
         THEN acc.totalStallTime \div (TicksPerHour * acc.stalledIssues)
         ELSE 0,
     longestStalled |-> acc.longestStalled,
     recentlyStalled |-> SeqTake(SortByHoursAsc(acc.stalledIssuesList), 10)]

\* Faulty variant: no catch around the search, a rejected request propagates
getDashboardMetricsUncaught(b, r, now) ==
    IF r = "throw" THEN Threw
    ELSE IF r # "ok" THEN getEmptyMetrics
    ELSE FinishMetrics(ProcessIssues(StartMetrics(Len(b.issues)), b.issues, b.config, now))

\* getDashboardMetrics() on the board b, the search answering r, at time now
getDashboardMetrics(b, r, now) ==
    IF r # "ok" THEN getEmptyMetrics
    ELSE FinishMetrics(ProcessIssues(StartMetrics(Len(b.issues)), b.issues, b.config, now))

-----------------------------------------------------------------------------
(* The tracker: the history of one issue, as the changelog API reports it *)

Responses == {"ok", "notok", "throw"}

Alice == Human("Alice")
DeployBot == Human("Deploy BOT")
ForgeApp == [present |-> TRUE, displayName |-> "Pit Stop", accountType |-> "app"]
SystemUser == [present |-> TRUE, displayName |-> "Carol", accountType |-> "system"]

Authors == {Alice, DeployBot, ForgeApp, SystemUser, NoAuthor}
BotAuthors == {DeployBot, ForgeApp, SystemUser, NoAuthor}

\* An edit is a field and its new value; the tracker adds the previous value
Edit(field, to) == [field |-> field, to |-> to]

Edits ==
    {Edit("status", "Done"), Edit("assignee", "Bob"),
     Edit("Rank", "Ranked higher"), Edit("summary", "New title")}

TimelineEdits ==
    {Edit("status", "Reopened"), Edit("status", "Done"), Edit("status", "In Review"),
     Edit("assignee", "Bob")}

EditSeqs(E, n) == UNION {[1..k -> E] : k \in 0..n}

\* Edits of the status and assignee timelines: one field, or status and assignee at once
TimelineEditSeqs ==
    {<<e>> : e \in TimelineEdits} \cup {<<Edit("status", "Done"), Edit("assignee", "Bob")>>}

\* Creation times of history entries: more than a week old, exactly 48 hours old,
\* just under 48 hours old
Dates == {Now - Hours(169), Now - Hours(48), Now - Hours(48) + 1}

RECURSIVE AllItems(_)
AllItems(hs) == IF Len(hs) = 0 THEN <<>> ELSE Head(hs).items \o AllItems(Tail(hs))

\* The value a field had before an edit: the last value written to it, if any
PrevValue(items, field) ==
    LET idx == {i \in 1..Len(items) : items[i].field = field}
    IN  IF idx = {} THEN Null
        ELSE items[CHOOSE i \in idx : \A j \in idx : j <= i].toString

RECURSIVE MakeItems(_, _)
MakeItems(before, edits) ==
    IF Len(edits) = 0 THEN <<>>
    ELSE LET item == [field |-> Head(edits).field,
                      fromString |-> PrevValue(before, Head(edits).field),
                      toString |-> Head(edits).to]
         IN  <<item>> \o MakeItems(Append(before, item), Tail(edits))

LastCreated(hs) == IF Len(hs) = 0 THEN 0 ELSE hs[Len(hs)].created

\* A user, an app or an automation rule edits the issue: the tracker appends one
\* history entry holding every field changed by that edit
RecordChange(author, edits, at) ==
    /\ analysis = NotRun
    /\ at >= LastCreated(histories)
    /\ histories' = Append(histories,
                           [author |-> author, created |-> at,
                            items |-> MakeItems(AllItems(histories), edits)])
    /\ phase' = "recorded"
    /\ UNCHANGED <<commentVars, calls, store, defaultThresholds, configOp, analysis, changelogResponse, world, result, board, listResponse, metrics>>

\* analyzeChangelog runs on the issue; r is the tracker's answer to its request
Analyze(r) ==
    /\ analysis = NotRun
    /\ changelogResponse' = r
    /\ analysis' = analyzeChangelog(r, histories, Now)
    /\ phase' = "analyzed"
    /\ UNCHANGED <<commentVars, calls, store, defaultThresholds, configOp, histories, world, result, board, listResponse, metrics>>

InitChangelog ==
    /\ histories = <<>>
    /\ analysis = NotRun
    /\ changelogResponse = "none"
    /\ world = NoWorld
    /\ result = NotRun
    /\ board = NoWorld
    /\ listResponse = "none"
    /\ metrics = NotRun
    /\ ConfigIdle
    /\ NoCalls
    /\ CommentsIdle
    /\ phase = "init"

NextChangelog ==
    \/ \E author \in Authors, edits \in EditSeqs(Edits, MaxItems), at \in Dates :
          Len(histories) < MaxEntries /\ RecordChange(author, edits, at)
    \/ \E r \in Responses : Analyze(r)

SpecChangelog == InitChangelog /\ [][NextChangelog]_vars

NextTimeline ==
    \/ \E edits \in TimelineEditSeqs, at \in Dates :
          Len(histories) < MaxTimeline /\ RecordChange(Alice, edits, at)
    \/ Analyze("ok")

SpecTimeline == InitChangelog /\ [][NextTimeline]_vars

\* The status of the issue moves between three values, each move at a later time
MaxStatusChanges == 6

StatusDates == {Now - Hours(10 * k) : k \in 1..MaxStatusChanges}

StatusEdits == {Edit("status", "Reopened"), Edit("status", "Done"), Edit("status", "In Review")}

\* A transition: the status changes to another value, strictly after the last change
MoveStatus(edit, at) ==
    /\ Len(histories) < MaxStatusChanges
    /\ histories # <<>> => at > LastCreated(histories)
    /\ PrevValue(AllItems(histories), "status") # edit.to
    /\ RecordChange(Alice, <<edit>>, at)

NextStatusFlow ==
    \/ \E edit \in StatusEdits, at \in StatusDates : MoveStatus(edit, at)
    \/ Analyze("ok")

SpecStatusFlow == InitChangelog /\ [][NextStatusFlow]_vars

-----------------------------------------------------------------------------
(* The classifier's world: one issue and everything isStalled asks about it *)

AliceUser == User("Alice", "acc-alice", TRUE)
BobUser == User("Bob", "acc-bob", TRUE)
RitaUser == User("Rita", "acc-rita", TRUE)
GoneUser == User("Gus", "acc-gus", FALSE)
AppUser == [present |-> TRUE, displayName |-> "Pit Stop", accountId |-> "acc-app",
            active |-> TRUE, accountType |-> "app"]

Ago(ticks) == Now - ticks

HistoryEntry(author, at, edits) ==
    [author |-> author, created |-> at, items |-> MakeItems(<<>>, edits)]

\* Changelogs of the issue, oldest entry first
NoHistory == <<>>
NoiseAfterWork ==
    <<HistoryEntry(Alice, Ago(Hours(100)), <<Edit("status", "In Progress")>>),
      HistoryEntry(DeployBot, Ago(Hours(5)), <<Edit("status", "In Progress")>>),
      HistoryEntry(Alice, Ago(Hours(4)), <<Edit("Rank", "Ranked higher")>>)>>
ReopenedTwice ==
    <<HistoryEntry(Alice, Ago(Hours(300)), <<Edit("status", "Reopened")>>),
      HistoryEntry(Alice, Ago(Hours(200)), <<Edit("status", "Done")>>),
      HistoryEntry(Alice, Ago(Hours(190)), <<Edit("status", "Reopened")>>)>>
ReopenedRecently ==
    <<HistoryEntry(Alice, Ago(Hours(30)), <<Edit("status", "Reopened")>>),
      HistoryEntry(Alice, Ago(Hours(10)), <<Edit("status", "Reopened")>>)>>
\* Only a bot and a ranking change touched the issue
OnlyNoise ==
    <<HistoryEntry(DeployBot, Ago(Hours(5)), <<Edit("status", "In Progress")>>),
      HistoryEntry(Alice, Ago(Hours(4)), <<Edit("Rank", "Ranked higher")>>)>>
MalformedHistory ==
    <<HistoryEntry(Alice, Ago(Hours(30)), <<Edit("status", Null)>>)>>

Comment(author, at) == [author |-> author, created |-> at]

\* Comments of the issue, newest first
CommentLists ==
    {<<>>,
     <<Comment(AliceUser, Ago(Hours(10)))>>,
     <<Comment(AliceUser, Ago(Hours(96)))>>,
     <<Comment(AliceUser, Ago(Hours(96) + 1))>>,
     <<Comment(AppUser, Ago(Hours(1)))>>,
     <<Comment(AppUser, Ago(Hours(1))), Comment(AliceUser, Ago(Hours(100)))>>}

BlocksType == [name |-> "Blocks", inward |-> "is blocked by", outward |-> "blocks"]
DependencyType == [name |-> "Dependency", inward |-> "is depended on by",
                   outward |-> "depends on"]
InwardLink(type, other) == [type |-> type, inwardIssue |-> other, outwardIssue |-> NoIssue]
OutwardLink(type, other) == [type |-> type, inwardIssue |-> NoIssue, outwardIssue |-> other]

NoLinks == <<>>
OneBlocker == <<InwardLink(BlocksType, Linked("PIT-1", "In Progress"))>>
\* PIT-1 blocks the issue and the issue blocks PIT-1: the same key twice
SameBlockerTwice ==
    <<InwardLink(BlocksType, Linked("PIT-1", "In Progress")),
      OutwardLink(BlocksType, Linked("PIT-1", "In Progress"))>>
BlockerAndDependency ==
    <<InwardLink(BlocksType, Linked("PIT-1", "In Progress")),
      OutwardLink(DependencyType, Linked("PIT-2", "To Do"))>>
ClosedDependency == <<OutwardLink(DependencyType, Linked("PIT-3", "Done"))>>

WatcherAnswers ==
    {[response |-> "ok", watchers |-> <<>>],
     [response |-> "ok", watchers |-> <<BobUser>>],
     [response |-> "ok", watchers |-> <<AliceUser, BobUser>>],
     [response |-> "notok", watchers |-> <<>>],
     [response |-> "throw", watchers |-> <<>>],
     [response |-> "malformed", watchers |-> <<>>]}

Statuses == {"In Progress", "In Review", "To Do", "Blocked", "BLOCKED", "Design"}

Issues(statuses, assignees, reporters, priorities, createdAges, updatedAges) ==
    {i \in [id : {"10001"}, key : {"PIT-7"}, status : statuses, assignee : assignees,
            reporter : reporters, priority : priorities,
            created : {Ago(a) : a \in createdAges},
            updated : {Ago(a) : a \in updatedAges}] : i.created <= i.updated}

\* Stored settings with the given feature toggles
SettingsWith(features) == [getDefaultSettings EXCEPT !.features = features]

Toggles ==
    {"detectNoActivity", "detectNoHumanComments", "detectUnassigned", "detectBlockers",
     "detectAssignedNotProgressing", "useChangelogAnalysis", "useContextualSuggestions"}

FeatureSets ==
    {[k \in DOMAIN DefaultFeatures |-> IF k \in Toggles THEN k \in on ELSE DefaultFeatures[k]] :
        on \in SUBSET Toggles}

\* Settings imported without their feature toggles
FeaturelessSettings ==
    [noHumanCommentThreshold |-> 96, commentCooldownHours |-> 24, maxIssuesPerRun |-> 50]

ConfigOf(keys, thresholds, settings) ==
    Stored([k \in keys |-> IF k = THRESHOLDS_KEY THEN thresholds ELSE settings])

CustomThresholds == [s \in {"In Progress", "default"} |-> IF s = "In Progress" THEN 10 ELSE 30]
NoDefaultThresholds == [s \in {"In Review"} |-> 8]

Worlds(issues, configs, storageOks, histories_, changelogResponses, commentLists, commentResponses, linkLists, checkResponses, blockingResponses, linkedResponses, watcherAnswers) ==
    [kind : {"world"},
     issue : issues,
     config : configs,
     settingsStorageOk : storageOks,
     thresholdsStorageOk : storageOks,
     changelog : [response : changelogResponses, histories : histories_],
     comments : [response : commentResponses, comments : commentLists],
     issueLinks : linkLists,
     checkResponse : checkResponses,
     blockingResponse : blockingResponses,
     linkedResponse : linkedResponses,
     watchers : watcherAnswers]

QuietWatchers == {[response |-> "ok", watchers |-> <<>>]}
RecentComment == {<<Comment(AliceUser, Ago(Hours(10)))>>}
OldComment == {<<Comment(AliceUser, Ago(Hours(100)))>>}

\* Every kind of issue, with every kind of comment history and blocker links
IssueWorlds ==
    Worlds(Issues(Statuses, {NoUser, AliceUser}, {RitaUser}, {"Medium"},
                  {Hours(24), Hours(48), Hours(48) + 1, Hours(200)},
                  {Hours(20), Hours(48), Hours(50), Hours(96), Hours(96) + 1}),
           {NoConfig}, {TRUE}, {NoHistory, NoiseAfterWork}, {"ok"},
           CommentLists, Responses, {NoLinks, OneBlocker}, Responses, {"ok"}, {"ok"},
           QuietWatchers)

\* Every combination of failing requests
FaultWorlds ==
    Worlds(Issues({"In Progress", "In Review"}, {AliceUser}, {RitaUser}, {"Medium"},
                  {Hours(200)}, {Hours(100)}),
           {NoConfig}, {TRUE}, {ReopenedTwice, MalformedHistory}, Responses,
           OldComment, Responses, {BlockerAndDependency}, Responses, Responses, Responses,
           WatcherAnswers)

\* Every combination of feature toggles
ToggleWorlds ==
    Worlds(Issues({"In Progress", "In Review", "Blocked"}, {NoUser, AliceUser}, {RitaUser},
                  {"Medium"}, {Hours(200)}, {Hours(20), Hours(100)}),
           {ConfigOf({SETTINGS_KEY}, <<>>, SettingsWith(f)) : f \in FeatureSets}, {TRUE},
           {ReopenedTwice}, {"ok"}, OldComment \cup {<<>>}, {"ok"}, {NoLinks, OneBlocker},
           {"ok"}, {"ok"}, {"ok"}, QuietWatchers)

\* Every kind of context the advisor draws on
AdvisorWorlds ==
    Worlds(Issues({"In Progress", "In Review", "To Do", "Blocked"},
                  {NoUser, AliceUser, GoneUser}, {NoUser, RitaUser, GoneUser, AliceUser},
                  {"Medium", "Highest"}, {Hours(200)}, {Hours(100)}),
           {NoConfig}, {TRUE}, {NoHistory, ReopenedTwice, ReopenedRecently}, {"ok"},
           OldComment \cup {<<>>}, {"ok"},
           {NoLinks, OneBlocker, SameBlockerTwice, BlockerAndDependency, ClosedDependency},
           {"ok"}, {"ok", "notok"}, {"ok"},
           {a \in WatcherAnswers : a.response = "ok"})

\* Every kind of stored configuration, with the storage up or down
ConfigWorlds ==
    Worlds(Issues(Statuses, {AliceUser}, {RitaUser}, {"Medium"}, {Hours(200)},
                  {Hours(20), Hours(50), Hours(100)}),
           {NoConfig,
            ConfigOf({THRESHOLDS_KEY}, CustomThresholds, <<>>),
            ConfigOf({THRESHOLDS_KEY}, NoDefaultThresholds, <<>>),
            ConfigOf({THRESHOLDS_KEY, SETTINGS_KEY}, CustomThresholds, getDefaultSettings),
            ConfigOf({SETTINGS_KEY}, <<>>, FeaturelessSettings)},
           BOOLEAN, {NoHistory, OnlyNoise}, {"ok"}, RecentComment, {"ok"}, {NoLinks}, {"ok"}, {"ok"},
           {"ok"}, QuietWatchers)

ClassifierWorlds == IssueWorlds \cup FaultWorlds \cup ToggleWorlds \cup AdvisorWorlds \cup ConfigWorlds

\* isStalled runs on the issue
Classify ==
    /\ result = NotRun
    /\ world # NoWorld
    /\ result' = isStalled(world, Now)
    /\ phase' = "classified"
    /\ UNCHANGED <<commentVars, calls, store, defaultThresholds, configOp, histories, changelogResponse, analysis, world, board, listResponse, metrics>>

Init ==
    /\ histories = <<>>
    /\ changelogResponse = "none"
    /\ analysis = NotRun
    /\ world \in ClassifierWorlds
    /\ result = NotRun
    /\ board = NoWorld
    /\ listResponse = "none"
    /\ metrics = NotRun
    /\ ConfigIdle
    /\ NoCalls
    /\ CommentsIdle
    /\ phase = "init"

Next == Classify

Spec == Init /\ [][Next]_vars

-----------------------------------------------------------------------------
(* The dashboard: the active issues of the site and one run of getDashboardMetrics *)

MaxIssues == 2

\* An active issue with everything the classifier reads about it, and the answer of
\* the tracker to the request for its details
DashboardIssues ==
    {[k \in DOMAIN w \cup {"detailResponse"} |-> IF k = "detailResponse" THEN r ELSE w[k]] :
        w \in Worlds(Issues({"In Progress", "To Do"}, {NoUser, AliceUser}, {RitaUser},
                            {"Medium"}, {Hours(200)},
                            {Hours(20), Hours(50) + 1, Hours(50) + 2, Hours(100)}),
                     {NoConfig}, {TRUE}, {NoHistory}, {"ok"}, RecentComment, {"ok"},
                     {NoLinks, OneBlocker}, {"ok"}, {"ok"}, {"ok"}, QuietWatchers),
        r \in Responses}
    \cup
    {[k \in DOMAIN w \cup {"detailResponse"} |-> IF k = "detailResponse" THEN "ok" ELSE w[k]] :
        w \in Worlds(Issues({"In Progress"}, {AliceUser}, {RitaUser},
                            {"Medium"}, {Hours(200)}, {Hours(100)}),
                     {NoConfig}, {TRUE}, {ReopenedTwice}, {"ok"}, RecentComment, {"ok"},
                     {NoLinks, OneBlocker}, {"ok"}, {"ok"}, {"ok"}, QuietWatchers)
             \cup Worlds(Issues({"To Do"}, {NoUser}, {RitaUser},
                                {"Medium"}, {Hours(200)}, {Hours(100)}),
                         {NoConfig}, {TRUE}, {NoHistory}, {"ok"}, OldComment, {"ok"},
                         {NoLinks}, {"ok"}, {"ok"}, {"ok"}, QuietWatchers)}

\* The stored configuration: none, or an imported one whose settings lack the toggles
DashboardConfigs == {NoConfig, ConfigOf({SETTINGS_KEY}, <<>>, FeaturelessSettings)}

IssueKey(n) == "PIT-" \o ToString(n)

\* An issue enters the set of active issues
TrackIssue(w) ==
    /\ phase = "board"
    /\ Len(board.issues) < MaxIssues
    /\ board' = [board EXCEPT !.issues =
                     Append(@, [w EXCEPT !.issue.key = IssueKey(Len(board.issues) + 1)])]
    /\ UNCHANGED <<commentVars, calls, store, defaultThresholds, configOp, histories, changelogResponse, analysis, world, result, listResponse,
                   metrics, phase>>

\* The dashboard resolver runs getDashboardMetrics; the search answers r
RunDashboard(r) ==
    /\ phase = "board"
    /\ listResponse' = r
    /\ metrics' = getDashboardMetrics(board, r, Now)
    /\ phase' = "dashboard"
    /\ UNCHANGED <<commentVars, calls, store, defaultThresholds, configOp, histories, changelogResponse, analysis, world, result, board>>

InitDashboard ==
    /\ histories = <<>>
    /\ changelogResponse = "none"
    /\ analysis = NotRun
    /\ world = NoWorld
    /\ result = NotRun
    /\ board \in [kind : {"board"}, config : DashboardConfigs, issues : {<<>>}]
    /\ listResponse = "none"
    /\ metrics = NotRun
    /\ ConfigIdle
    /\ NoCalls
    /\ CommentsIdle
    /\ phase = "board"

NextDashboard ==
    \/ \E w \in DashboardIssues : TrackIssue(w)
    \/ \E r \in Responses : RunDashboard(r)

SpecDashboard == InitDashboard /\ [][NextDashboard]_vars

-----------------------------------------------------------------------------
(* The configuration store and the operations of configManager.js on it *)

otherVars == <<histories, changelogResponse, analysis, world, result, board, listResponse, metrics, calls, thread, clock, appAccountId, events, lastRun, phase>>

\* Thresholds an administrator saves: hours are positive, entries may be missing
ThresholdInputs == {CustomThresholds, NoDefaultThresholds}

SettingsInputs == {getDefaultSettings, SettingsWith([DefaultFeatures EXCEPT !.detectBlockers = FALSE])}

\* Objects handed to importConfig: settings without toggles, thresholds alone
ImportInputs ==
    {ConfigOf({SETTINGS_KEY}, <<>>, FeaturelessSettings),
     ConfigOf({THRESHOLDS_KEY}, NoDefaultThresholds, <<>>)}

Outcome(name, out) == [name |-> name, success |-> out.success, before |-> store]

SetThresholds(thresholds, failAt) ==
    LET out == setThresholds(store, thresholds, failAt)
    IN  /\ store' = out.store
        /\ configOp' = Outcome("setThresholds", out)
        /\ UNCHANGED <<defaultThresholds, otherVars>>

SetSettings(settings, failAt) ==
    LET out == setSettings(store, settings, failAt)
    IN  /\ store' = out.store
        /\ configOp' = Outcome("setSettings", out)
        /\ UNCHANGED <<defaultThresholds, otherVars>>

SetThresholdForStatus(status, hours, readOk, failAt) ==
    LET out == setThresholdForStatus(defaultThresholds, store, status, hours, readOk, failAt)
    IN  /\ store' = out.store
        /\ defaultThresholds' = out.defaults
        /\ configOp' = Outcome("setThresholdForStatus", out)
        /\ UNCHANGED otherVars

ResetThresholds(failAt) ==
    LET out == resetThresholds(defaultThresholds, store, failAt)
    IN  /\ store' = out.store
        /\ configOp' = Outcome("resetThresholds", out)
        /\ UNCHANGED <<defaultThresholds, otherVars>>

ImportConfig(configJson, setOk) ==
    LET out == importConfig(store, configJson, setOk)
    IN  /\ store' = out.store
        /\ configOp' = Outcome("importConfig", out)
        /\ UNCHANGED <<defaultThresholds, otherVars>>

\* importConfig(exportConfig())
RoundTrip(getOk, setOk) ==
    LET exported == exportConfig(defaultThresholds, store, getOk)
        out == importConfig(store, exported, setOk)
    IN  /\ store' = out.store
        /\ configOp' = [name |-> "roundTrip", success |-> out.success, before |-> store,
                        exported |-> getOk]
        /\ UNCHANGED <<defaultThresholds, otherVars>>

\* A new instance of the app starts: the module is loaded afresh
ColdStart ==
    /\ defaultThresholds # DEFAULT_THRESHOLDS
    /\ defaultThresholds' = DEFAULT_THRESHOLDS
    /\ configOp' = NoOp
    /\ UNCHANGED <<store, otherVars>>

InitConfig ==
    /\ histories = <<>>
    /\ changelogResponse = "none"
    /\ analysis = NotRun
    /\ world = NoWorld
    /\ result = NotRun
    /\ board = NoWorld
    /\ listResponse = "none"
    /\ metrics = NotRun
    /\ ConfigIdle
    /\ NoCalls
    /\ CommentsIdle
    /\ phase = "config"

\* Status names looked up: with an entry in some stored mapping, without one, and
\* the name of the fallback entry itself
ProbedStatuses == {"In Progress", "In Review", "Design", "default"}

\* getThresholdForStatus(status) in the running instance
GetThresholdForStatus(status, storageOk) ==
    /\ configOp' = [name |-> "getThresholdForStatus", success |-> TRUE, before |-> store,
                    status |-> status, storageOk |-> storageOk,
                    hours |-> ThresholdOrFallback(
                                  getThresholdsFrom(defaultThresholds, store, storageOk), status)]
    /\ UNCHANGED <<store, defaultThresholds, otherVars>>

NextConfig ==
    \/ \E status \in ProbedStatuses, storageOk \in BOOLEAN : GetThresholdForStatus(status, storageOk)
    \/ \E t \in ThresholdInputs, f \in {"none", "get", "set", "verify"} : SetThresholds(t, f)
    \/ \E g \in SettingsInputs, f \in {"none", "get", "set", "verify"} : SetSettings(g, f)
    \/ \E status \in {"In Progress", "Triage"}, readOk \in BOOLEAN,
          f \in {"none", "get", "set", "verify"} :
          SetThresholdForStatus(status, 10, readOk, f)
    \/ \E f \in {"none", "get", "set"} : ResetThresholds(f)
    \/ \E json \in ImportInputs, setOk \in BOOLEAN : ImportConfig(json, setOk)
    \/ \E getOk, setOk \in BOOLEAN : RoundTrip(getOk, setOk)
    \/ ColdStart

SpecConfig == InitConfig /\ [][NextConfig]_vars

-----------------------------------------------------------------------------
(* setThresholds and setSettings invoked in one instance at the same time: each *)
(* call is a storage.get, an assignment to the object read, a storage.set of    *)
(* the whole object and a verification storage.get, with an await at each       *)
(* storage call where the other call may run.                                   *)

nonCallVars == <<histories, changelogResponse, analysis, world, result, board, listResponse, metrics, defaultThresholds, configOp, thread, clock, appAccountId, events, lastRun, phase>>

Writers == {"setThresholds", "setSettings"}

\* The key of the stored object a call assigns
KeyOf(name) == IF name = "setThresholds" THEN THRESHOLDS_KEY ELSE SETTINGS_KEY

OtherKey(name) == IF name = "setThresholds" THEN SETTINGS_KEY ELSE THRESHOLDS_KEY

WriterInputs(name) == IF name = "setThresholds" THEN ThresholdInputs ELSE SettingsInputs

\* What the store holds when the calls arrive: nothing, or both keys
ConcurrentStores ==
    {NoConfig, ConfigOf({THRESHOLDS_KEY, SETTINGS_KEY}, DEFAULT_THRESHOLDS, getDefaultSettings)}

Running(name, pc) == name \in DOMAIN calls /\ calls[name].pc = pc

\* The catch block: { success: false }
Rejected(name) == [calls EXCEPT ![name].pc = "returned", ![name].success = FALSE]

\* The resolver invokes setThresholds(value) or setSettings(value): the call runs
\* up to its first await, the storage.get
Invoke(name, value) ==
    /\ name \notin DOMAIN calls
    /\ calls' = [n \in DOMAIN calls \cup {name} |->
                    IF n = name
                    THEN [pc |-> "get", value |-> value, config |-> NoConfig,
                          success |-> FALSE, before |-> store]
                    ELSE calls[n]]
    /\ UNCHANGED <<store, nonCallVars>>

\* const config = (await storage.get(CONFIG_KEY)) || {}; config[KEY] = value
StorageGet(name, ok) ==
    /\ Running(name, "get")
    /\ calls' = IF ok
                THEN [calls EXCEPT ![name].pc = "set",
                                   ![name].config = PutKey(store, KeyOf(name), calls[name].value)]
                ELSE Rejected(name)
    /\ UNCHANGED <<store, nonCallVars>>

\* await storage.set(CONFIG_KEY, config): the whole object replaces the stored one
StorageSet(name, ok) ==
    /\ Running(name, "set")
    /\ store' = IF ok THEN calls[name].config ELSE store
    /\ calls' = IF ok THEN [calls EXCEPT ![name].pc = "verify"] ELSE Rejected(name)
    /\ UNCHANGED nonCallVars

\* const verify = await storage.get(CONFIG_KEY): only logged; return { success: true }
StorageVerify(name, ok) ==
    /\ Running(name, "verify")
    /\ calls' = IF ok
                THEN [calls EXCEPT ![name].pc = "returned", ![name].success = TRUE]
                ELSE Rejected(name)
    /\ UNCHANGED <<store, nonCallVars>>

InitConcurrent ==
    /\ histories = <<>>
    /\ changelogResponse = "none"
    /\ analysis = NotRun
    /\ world = NoWorld
    /\ result = NotRun
    /\ board = NoWorld
    /\ listResponse = "none"
    /\ metrics = NotRun
    /\ store \in ConcurrentStores
    /\ defaultThresholds = DEFAULT_THRESHOLDS
    /\ configOp = NoOp
    /\ NoCalls
    /\ CommentsIdle
    /\ phase = "concurrent"

NextConcurrent ==
    \/ \E name \in Writers : \E value \in WriterInputs(name) : Invoke(name, value)
    \/ \E name \in Writers, ok \in BOOLEAN : StorageGet(name, ok)
    \/ \E name \in Writers, ok \in BOOLEAN : StorageSet(name, ok)
    \/ \E name \in Writers, ok \in BOOLEAN : StorageVerify(name, ok)

SpecConcurrent == InitConcurrent /\ [][NextConcurrent]_vars

-----------------------------------------------------------------------------
(* index.js and scanner.js: the comment handler and the scheduled scan, on the  *)
(* comment thread of one issue.  Comment times are hours on the thread's clock. *)

COMMENT_COOLDOWN_HOURS == 24

ACTIVE_STATUSES == {"In Progress", "In Review", "Code Review", "To Do", "Blocked", "Testing", "QA"}

MaxThread == 4
MaxClock == 36

\* The thread's clock advances in steps of half a day
TickHours == 12

\* getAppAccountId(): the account of the app, or null when /myself fails
getAppAccountId(lookupOk) == IF lookupOk THEN AppUser.accountId ELSE Null

\* A comment of the thread; alert says whether its text contains "Pit Stop Alert"
ThreadComment(authorId, at, alert) == [author |-> authorId, created |-> at, alert |-> alert]

\* GET comment?orderBy=-created&maxResults=10: the ten newest comments
NewestComments(comments) ==
    SubSeq(comments, IF Len(comments) > 10 THEN Len(comments) - 9 ELSE 1, Len(comments))

\* The filter of hasRecentBotComment and shouldPostComment: isBot && isRecent &&
\* isPitStopComment
RecentBotComments(comments, appId, now, cooldownHours) ==
    SelectSeq(NewestComments(comments),
              LAMBDA comment : /\ comment.author = appId
                               /\ comment.created > now - cooldownHours
                               /\ comment.alert)

\* index.js, hasRecentBotComment(issueId, issueKey)
hasRecentBotComment(comments, now, lookupOk, commentsOk) ==
    IF getAppAccountId(lookupOk) = Null THEN FALSE
    ELSE IF ~commentsOk THEN FALSE
    ELSE Len(RecentBotComments(comments, getAppAccountId(lookupOk), now,
                               COMMENT_COOLDOWN_HOURS)) > 0

\* scanner.js, shouldPostComment(issueId, issueKey)
shouldPostComment(comments, now, lookupOk, commentsOk) ==
    IF getAppAccountId(lookupOk) = Null THEN TRUE
    ELSE IF ~commentsOk THEN TRUE
    ELSE Len(RecentBotComments(comments, getAppAccountId(lookupOk), now, 24)) = 0

\* index.js, shouldPostEncouragement(issue, authorId)
shouldPostEncouragement(issue, authorId, now) ==
    IF issue.status \notin {"In Progress", "In Review", "Code Review", "Testing"} THEN FALSE
    ELSE IF issue.assignee.present /\ issue.assignee.accountId = authorId THEN TRUE
    ELSE now - issue.updated < Hours(2)

Silent(appId) == [appAccountId |-> appId, post |-> "none"]

Posting(appId, what, postOk) == [appAccountId |-> appId, post |-> IF postOk THEN what ELSE "none"]

\* index.js, handleComment(event, context): the value of appAccountId afterwards
\* and the comment it posts ("warning", "encouragement" or "none").  cached is
\* appAccountId before, w the issue as the tracker shows it, stallInfo what isStalled
\* gives for it; postOk = FALSE is an addComment that fails (caught and logged).
handleComment(event, cached, comments, now, w, stallInfo, lookupOk, recentLookupOk, commentsOk, postOk) ==
    LET appId == IF cached = Null THEN getAppAccountId(lookupOk) ELSE cached
    IN  IF event.author = appId THEN Silent(appId)
        ELSE IF hasRecentBotComment(comments, now, recentLookupOk, commentsOk) THEN Silent(appId)
        ELSE IF ~getIssueDetails(w).found THEN Silent(appId)
        ELSE IF stallInfo.kind = "threw" THEN Silent(appId)
        ELSE IF stallInfo.isStalled THEN Posting(appId, "warning", postOk)
        ELSE IF shouldPostEncouragement(w.issue, event.author, Now)
        THEN Posting(appId, "encouragement", postOk)
        ELSE Silent(appId)

\* scanner.js, scanForStalledIssues(): what it posts on the issue ("warning" or "none")
scanForStalledIssues(comments, now, w, stallInfo, listOk, lookupOk, commentsOk, postOk) ==
    IF ~listOk \/ w.issue.status \notin ACTIVE_STATUSES THEN "none"
    ELSE IF ~getIssueDetails(w).found THEN "none"
    ELSE IF stallInfo.kind = "threw" THEN "none"
    ELSE IF stallInfo.isStalled /\ shouldPostComment(comments, now, lookupOk, commentsOk) /\ postOk
    THEN "warning"
    ELSE "none"

\* The issue as the tracker shows it when a handler runs: stalled, healthy and
\* active, healthy and waiting; its details request answers or fails
CommentIssues ==
    {[k \in DOMAIN w \cup {"detailResponse"} |-> IF k = "detailResponse" THEN r ELSE w[k]] :
        w \in {v \in Worlds(Issues({"In Progress", "To Do"}, {AliceUser}, {RitaUser}, {"Medium"},
                                    {Hours(200)}, {Hours(1), Hours(100)}),
                             {NoConfig}, {TRUE}, {NoHistory}, {"ok"}, RecentComment, {"ok"},
                             {NoLinks}, {"ok"}, {"ok"}, {"ok"}, QuietWatchers) :
                  v.issue.status = "To Do" => v.issue.updated = Ago(Hours(100))},
        r \in {"ok", "notok"}}

Commenters == {AliceUser.accountId, BobUser.accountId}

nonCommentVars == <<histories, changelogResponse, analysis, world, result, board, listResponse, metrics, store, defaultThresholds, configOp, calls, phase>>

\* The comments the app posts carry the alert text, its encouragements do not
AppComment(what, at) == ThreadComment(AppUser.accountId, at, what = "warning")

\* addComment succeeded: the comment is on the thread and its event is pending
AfterPost(what, pending) ==
    /\ thread' = IF what = "none" THEN thread ELSE Append(thread, AppComment(what, clock))
    /\ events' = IF what = "none" THEN pending
                 ELSE Append(pending, [author |-> AppUser.accountId])

\* A person comments on the issue
UserComments(authorId) ==
    /\ Len(thread) < MaxThread
    /\ thread' = Append(thread, ThreadComment(authorId, clock, FALSE))
    /\ events' = Append(events, [author |-> authorId])
    /\ lastRun' = [name |-> "comment", author |-> authorId, post |-> "none"]
    /\ UNCHANGED <<clock, appAccountId, nonCommentVars>>

\* Forge delivers the oldest pending comment event to handleComment
HandleComment(w, stallInfo, lookupOk, recentLookupOk, commentsOk, postOk) ==
    /\ events # <<>>
    /\ Len(thread) < MaxThread
    /\ LET out == handleComment(Head(events), appAccountId, thread, clock, w, stallInfo,
                                lookupOk, recentLookupOk, commentsOk, postOk)
       IN  /\ appAccountId' = out.appAccountId
           /\ AfterPost(out.post, Tail(events))
           /\ lastRun' = [name |-> "handleComment", author |-> Head(events).author,
                          post |-> out.post]
    /\ UNCHANGED <<clock, nonCommentVars>>

\* The scheduled trigger runs scanForStalledIssues
Scan(w, stallInfo, listOk, lookupOk, commentsOk, postOk) ==
    /\ Len(thread) < MaxThread
    /\ LET what == scanForStalledIssues(thread, clock, w, stallInfo, listOk, lookupOk,
                                        commentsOk, postOk)
       IN  /\ AfterPost(what, events)
           /\ lastRun' = [name |-> "scan", author |-> Null, post |-> what]
    /\ UNCHANGED <<clock, appAccountId, nonCommentVars>>

\* Time passes
Tick ==
    /\ clock + TickHours <= MaxClock
    /\ clock' = clock + TickHours
    /\ UNCHANGED <<thread, appAccountId, events, lastRun, nonCommentVars>>

InitComments ==
    /\ histories = <<>>
    /\ changelogResponse = "none"
    /\ analysis = NotRun
    /\ world = NoWorld
    /\ result = NotRun
    /\ board = NoWorld
    /\ listResponse = "none"
    /\ metrics = NotRun
    /\ ConfigIdle
    /\ NoCalls
    /\ CommentsIdle
    /\ phase = "comments"

NextComments ==
    \/ \E authorId \in Commenters : UserComments(authorId)
    \/ \E w \in CommentIssues, lookupOk, recentLookupOk, commentsOk, postOk \in BOOLEAN :
          HandleComment(w, isStalled(w, Now), lookupOk, recentLookupOk, commentsOk, postOk)
    \/ \E w \in CommentIssues, listOk, lookupOk, commentsOk, postOk \in BOOLEAN :
          Scan(w, isStalled(w, Now), listOk, lookupOk, commentsOk, postOk)
    \/ Tick

SpecComments == InitComments /\ [][NextComments]_vars

-----------------------------------------------------------------------------
(* Properties of the changelog analysis *)

Analyzed == phase = "analyzed" /\ analysis.kind = "analysis"
Fetched == Analyzed /\ changelogResponse = "ok"

\* The change events of the history, each with the author and date of its entry
RECURSIVE Events(_)
Events(hs) ==
    IF Len(hs) = 0 THEN <<>>
    ELSE [i \in 1..Len(Head(hs).items) |->
             [author |-> Head(hs).author, created |-> Head(hs).created,
              field |-> Head(hs).items[i].field]] \o Events(Tail(hs))

CountOf(s, Test(_)) == Cardinality({i \in 1..Len(s) : Test(s[i])})

BotLabels == {AuthorLabel(a) : a \in BotAuthors}

FieldOr(a, f, default) == IF f \in DOMAIN a THEN a[f] ELSE default

AuthorsOf(seq) == {seq[i].author : i \in 1..Len(seq)}

\* C8: a change whose entry was written by a bot (absent author, app or system
\* account, bot-like display name in any letter case) is never counted as
\* meaningful, never becomes the last meaningful update, never enters the status
\* or assignment timeline, and is counted as noise.
C8_BotChangesAreNoise ==
    Analyzed =>
        /\ analysis.meaningfulChanges
              <= CountOf(Events(histories), LAMBDA e : e.author \notin BotAuthors)
        /\ analysis.lastMeaningfulUpdate # NoDate =>
              /\ analysis.lastMeaningfulUpdateBy \notin BotLabels
              /\ \E i \in 1..Len(histories) :
                    /\ histories[i].author \notin BotAuthors
                    /\ histories[i].created = analysis.lastMeaningfulUpdate
        /\ AuthorsOf(analysis.timeline) \cap BotLabels = {}
        /\ AuthorsOf(FieldOr(analysis, "statusHistory", <<>>)) \cap BotLabels = {}
        /\ AuthorsOf(FieldOr(analysis, "assignmentHistory", <<>>)) \cap BotLabels = {}
        /\ changelogResponse = "ok" =>
              analysis.noiseChanges
                >= CountOf(Events(histories), LAMBDA e : e.author \in BotAuthors)

\* A bot with a bot-like name in capitals changed the status after a human did
C8_Witness ==
    /\ Fetched
    /\ Len(histories) = 2
    /\ histories[1].author = Alice /\ histories[2].author = DeployBot
    /\ histories[1].created < histories[2].created
    /\ \E i \in 1..Len(histories[1].items) : histories[1].items[i].field = "status"
    /\ \E i \in 1..Len(histories[2].items) : histories[2].items[i].field = "status"
    /\ analysis.lastMeaningfulUpdate = histories[1].created
    /\ analysis.noiseChanges >= 1

\* C9: totalChanges is the number of change events of the history, and
\* meaningfulChanges + noiseChanges never exceeds it.
C9_TotalCountsEveryChange ==
    Fetched =>
        /\ analysis.totalChanges = Len(Events(histories))
        /\ analysis.meaningfulChanges + analysis.noiseChanges <= analysis.totalChanges

PatternsOfType(a, t) == SelectSeq(a.patterns, LAMBDA p : p.type = t)

HasPattern(t) == Len(PatternsOfType(analysis, t)) = 1

\* C28: with the status timeline ordered most recent first, STUCK_IN_STATUS and
\* STATUS_THRASHING are never both present in one analysis; every other pair of
\* the five patterns occurs together in some analysis.
C28_StuckExcludesThrashing ==
    Analyzed => ~(HasPattern("STUCK_IN_STATUS") /\ HasPattern("STATUS_THRASHING"))

\* Thrashing, ping-pong, churning and reopens in one analysis: six of the nine pairs
C28_Witness ==
    /\ Analyzed
    /\ HasPattern("STATUS_THRASHING")
    /\ HasPattern("STATUS_PING_PONG")
    /\ HasPattern("ASSIGNMENT_CHURNING")
    /\ HasPattern("MULTIPLE_REOPENS")
    /\ ~HasPattern("STUCK_IN_STATUS")

\* Stuck together with ping-pong and reopens
C28_StuckWithPingPongAndReopens ==
    /\ Analyzed
    /\ HasPattern("STUCK_IN_STATUS")
    /\ HasPattern("STATUS_PING_PONG")
    /\ HasPattern("MULTIPLE_REOPENS")

\* Stuck together with churning: an old status change, then three reassignments
C28_StuckWithChurning ==
    /\ Analyzed
    /\ HasPattern("STUCK_IN_STATUS")
    /\ HasPattern("ASSIGNMENT_CHURNING")

\* The status changes of the timeline that are less than 48 hours old
RecentStatusChanges(a) ==
    SelectSeq(FieldOr(a, "statusHistory", <<>>), LAMBDA h : Now - h.date < 48 * TicksPerHour)

\* C10: STATUS_THRASHING (HIGH) is reported iff at least 5 status changes of the
\* timeline are less than 48 hours old at analysis time; its evidence is exactly
\* those changes.
C10_ThrashingIffFiveIn48h ==
    Analyzed =>
        LET found == PatternsOfType(analysis, "STATUS_THRASHING")
            recent == RecentStatusChanges(analysis)
        IN  /\ Len(found) = (IF Len(recent) >= 5 THEN 1 ELSE 0)
            /\ Len(found) = 1 =>
                  /\ found[1].severity = "HIGH"
                  /\ found[1].count = Len(recent)
                  /\ [i \in 1..Len(found[1].details) |->
                        [status |-> found[1].details[i].to,
                         date |-> found[1].details[i].date,
                         author |-> found[1].details[i].author]] = recent

\* Exactly five status changes in the last 48 hours
C10_Witness ==
    /\ Analyzed
    /\ Len(RecentStatusChanges(analysis)) = 5
    /\ Len(analysis.statusHistory) = 5
    /\ Len(PatternsOfType(analysis, "STATUS_THRASHING")) = 1

\* Four status changes in the last 48 hours and an older one: no thrashing
C10_FourRecentOneOlder ==
    /\ Analyzed
    /\ Len(RecentStatusChanges(analysis)) = 4
    /\ Len(FieldOr(analysis, "statusHistory", <<>>)) = 5
    /\ Len(PatternsOfType(analysis, "STATUS_THRASHING")) = 0

\* The destinations of the status changes of the history, oldest first
StatusDestinations(hs) ==
    LET items == SelectSeq(AllItems(hs), LAMBDA item : item.field = "status")
    IN  [i \in 1..Len(items) |-> items[i].toString]

\* The last n elements of a sequence (all of them when it is shorter)
LastOf(seq, n) == IF Len(seq) <= n THEN seq ELSE SubSeq(seq, Len(seq) - n + 1, Len(seq))

ValuesOf(seq) == {seq[i] : i \in 1..Len(seq)}

\* C11: STATUS_PING_PONG (MEDIUM) is reported iff the timeline has at least 3
\* status changes and the destinations of the most recent 5 of them (all of them
\* when fewer) hold exactly 2 distinct values.
C11_PingPongIffTwoDestinations ==
    Analyzed =>
        LET dests == StatusDestinations(histories)
            found == PatternsOfType(analysis, "STATUS_PING_PONG")
        IN  /\ Len(found) = (IF Len(dests) >= 3 /\ Cardinality(ValuesOf(LastOf(dests, 5))) = 2
                             THEN 1 ELSE 0)
            /\ Len(found) = 1 =>
                  /\ found[1].severity = "MEDIUM"
                  /\ ValuesOf(found[1].statuses) = ValuesOf(LastOf(dests, 5))

\* Six status changes: the oldest went to a third value, the five most recent
\* bounce between two
C11_Witness ==
    /\ Analyzed
    /\ StatusDestinations(histories)
          = <<"In Review", "Done", "Reopened", "Done", "Reopened", "Done">>
    /\ Len(PatternsOfType(analysis, "STATUS_PING_PONG")) = 1

\* Destinations A, B, C, A, B: three distinct values, no ping-pong
C11_ThreeDestinations ==
    /\ Analyzed
    /\ StatusDestinations(histories) = <<"Done", "Reopened", "In Review", "Done", "Reopened">>
    /\ Len(PatternsOfType(analysis, "STATUS_PING_PONG")) = 0

-----------------------------------------------------------------------------
(* Properties of the stall classifier *)

Classified == phase = "classified" /\ result.kind = "result"

HasReason(t) == \E i \in 1..Len(result.reasons) : result.reasons[i].type = t

CommentsCallFailed == world.comments.response \in {"notok", "throw"}

\* C2: when the comments request fails, the comment detector is not triggered:
\* neither NO_HUMAN_INTERACTION nor NO_COMMENTS is reported, whatever the issue's age.
C2_FailedCommentsNotTriggered ==
    (Classified /\ CommentsCallFailed) =>
        ~HasReason("NO_HUMAN_INTERACTION") /\ ~HasReason("NO_COMMENTS")

SettingsWellFormed == "features" \in DOMAIN getSettings(world.config, world.settingsStorageOk)

IsSequence(x) == DOMAIN x = 1..Len(x)

\* C3: whatever requests fail, isStalled returns a result with a list of reasons;
\* a failed blocker fetch gives no HAS_BLOCKERS reason and a failed changelog
\* analysis gives no pattern-derived reason.
C3_NoCollaboratorFailureAborts ==
    (phase = "classified" /\ SettingsWellFormed) =>
        /\ result.kind = "result"
        /\ IsSequence(result.reasons)
        /\ world.checkResponse # "ok" => ~HasReason("HAS_BLOCKERS")
        /\ (world.changelog.response # "ok" \/ result.changelogAnalysis.kind = "null") =>
              \A i \in 1..Len(result.reasons) : "pattern" \notin DOMAIN result.reasons[i]

\* Every request fails at once, on an issue that is stalled all the same
C3_Witness ==
    /\ Classified
    /\ world.changelog.response = "throw"
    /\ world.comments.response = "throw"
    /\ world.checkResponse = "notok"
    /\ world.blockingResponse = "throw"
    /\ world.linkedResponse = "notok"
    /\ world.watchers.response = "malformed"
    /\ HasReason("ASSIGNED_NOT_PROGRESSING")
    /\ result.contextualSuggestions = <<>>

\* The total order CRITICAL > HIGH > MEDIUM > LOW
Rank(sev) == CASE sev = "CRITICAL" -> 3 [] sev = "HIGH" -> 2 [] sev = "MEDIUM" -> 1 [] sev = "LOW" -> 0

\* C4: the severity of a result with reasons is the highest severity among them,
\* in the order CRITICAL > HIGH > MEDIUM > LOW, wherever that reason stands.
C4_SeverityIsMaximum ==
    (Classified /\ Len(result.reasons) > 0) =>
        /\ \A i \in 1..Len(result.reasons) :
              Rank(result.severity) >= Rank(result.reasons[i].severity)
        /\ \E i \in 1..Len(result.reasons) : result.reasons[i].severity = result.severity

\* Reasons of severity MEDIUM, then CRITICAL, then HIGH: the result is CRITICAL
C4_Witness ==
    /\ Classified
    /\ Len(result.reasons) = 3
    /\ result.reasons[1].severity = "MEDIUM"
    /\ result.reasons[2].severity = "CRITICAL"
    /\ result.reasons[3].severity = "HIGH"
    /\ result.severity = "CRITICAL"

\* C5: the reasons of a result are always a list, and the issue is reported
\* stalled exactly when that list is not empty.
C5_StalledIffReasons ==
    Classified =>
        /\ IsSequence(result.reasons)
        /\ result.isStalled <=> (result.reasons # <<>>)

\* A healthy issue: no reasons, not stalled
C5_Witness ==
    /\ Classified
    /\ result.reasons = <<>>
    /\ ~result.isStalled

\* A single reason makes the issue stalled
C5_OneReason ==
    /\ Classified
    /\ Len(result.reasons) = 1
    /\ result.isStalled

\* The reasons of the result that have type t
ReasonsOfType(t) == SelectSeq(result.reasons, LAMBDA r : r.type = t)

\* The settings and the threshold in force when the issue was classified
SettingsInForce == getSettings(world.config, world.settingsStorageOk)

ThresholdInForce(status) == getThresholdForStatus(world.config, world.thresholdsStorageOk, status)

\* Effective elapsed time: since the last meaningful update when the analysis
\* found one, since the issue's updated timestamp otherwise
EffectiveElapsed ==
    IF /\ result.changelogAnalysis.kind = "analysis"
       /\ result.changelogAnalysis.lastMeaningfulUpdate # NoDate
    THEN Now - result.changelogAnalysis.lastMeaningfulUpdate
    ELSE Now - world.issue.updated

\* C13: with detectNoActivity on, NO_ACTIVITY is present iff the effective elapsed
\* hours exceed the threshold of the issue's status; it is HIGH when they exceed
\* twice the threshold and MEDIUM otherwise, and it records the threshold.
C13_NoActivityIffOverThreshold ==
    (Classified /\ SettingsInForce.features.detectNoActivity) =>
        LET threshold == ThresholdInForce(world.issue.status)
            found == ReasonsOfType("NO_ACTIVITY")
        IN  /\ Len(found) = (IF EffectiveElapsed > threshold * TicksPerHour THEN 1 ELSE 0)
            /\ Len(found) = 1 =>
                  /\ found[1].severity = (IF EffectiveElapsed > 2 * threshold * TicksPerHour
                                          THEN "HIGH" ELSE "MEDIUM")
                  /\ found[1].threshold = threshold

\* In Progress, threshold 48 hours, 50 hours elapsed, assigned: NO_ACTIVITY is
\* MEDIUM and ASSIGNED_NOT_PROGRESSING is HIGH
C13_Witness ==
    /\ Classified
    /\ world.issue.status = "In Progress" /\ world.issue.assignee.present
    /\ ThresholdInForce("In Progress") = 48
    /\ EffectiveElapsed = 50 * TicksPerHour
    /\ Len(ReasonsOfType("NO_ACTIVITY")) = 1
    /\ ReasonsOfType("NO_ACTIVITY")[1].severity = "MEDIUM"
    /\ Len(ReasonsOfType("ASSIGNED_NOT_PROGRESSING")) = 1
    /\ ReasonsOfType("ASSIGNED_NOT_PROGRESSING")[1].severity = "HIGH"

\* Elapsed time just over twice the threshold: NO_ACTIVITY is HIGH
C13_OverTwice ==
    /\ Classified
    /\ EffectiveElapsed = 2 * ThresholdInForce(world.issue.status) * TicksPerHour + 1
    /\ Len(ReasonsOfType("NO_ACTIVITY")) = 1
    /\ ReasonsOfType("NO_ACTIVITY")[1].severity = "HIGH"

\* C14: ASSIGNED_NOT_PROGRESSING (HIGH) is present iff the status is "In Progress",
\* the issue has an assignee and the effective elapsed hours exceed the threshold
\* of that status.
C14_NotProgressingIffAssignedInProgress ==
    Classified =>
        LET found == ReasonsOfType("ASSIGNED_NOT_PROGRESSING")
        IN  /\ Len(found) = (IF /\ world.issue.status = "In Progress"
                                /\ world.issue.assignee.present
                                /\ EffectiveElapsed > ThresholdInForce("In Progress") * TicksPerHour
                             THEN 1 ELSE 0)
            /\ Len(found) = 1 => found[1].severity = "HIGH"

\* An assigned issue in progress beyond a custom threshold of 10 hours
C14_Witness ==
    /\ Classified
    /\ world.issue.status = "In Progress" /\ world.issue.assignee.present
    /\ ThresholdInForce("In Progress") = 10
    /\ EffectiveElapsed = 20 * TicksPerHour
    /\ Len(ReasonsOfType("ASSIGNED_NOT_PROGRESSING")) = 1

\* An unassigned issue in progress beyond the threshold: no such reason
C14_Unassigned ==
    /\ Classified
    /\ world.issue.status = "In Progress" /\ ~world.issue.assignee.present
    /\ EffectiveElapsed > ThresholdInForce("In Progress") * TicksPerHour
    /\ Len(ReasonsOfType("ASSIGNED_NOT_PROGRESSING")) = 0

\* C15: when the status name is "blocked" in any letter case, the result has a
\* STATUS_BLOCKED reason of severity CRITICAL and its severity is CRITICAL,
\* whatever the elapsed time, the thresholds, the toggles and the blocker links.
C15_BlockedStatusIsCritical ==
    (Classified /\ toLowerCase(world.issue.status) = "blocked") =>
        /\ Len(ReasonsOfType("STATUS_BLOCKED")) = 1
        /\ ReasonsOfType("STATUS_BLOCKED")[1].severity = "CRITICAL"
        /\ result.severity = "CRITICAL"
        /\ result.isStalled

\* Status "BLOCKED", 20 hours elapsed, the blocker links request failing
C15_Witness ==
    /\ Classified
    /\ world.issue.status = "BLOCKED"
    /\ EffectiveElapsed = 20 * TicksPerHour
    /\ world.checkResponse # "ok"
    /\ result.severity = "CRITICAL"
    /\ Len(result.reasons) = 1

\* Status "Blocked" with every detector switched off
C15_AllTogglesOff ==
    /\ Classified
    /\ world.issue.status = "Blocked"
    /\ \A k \in Toggles : ~SettingsInForce.features[k]
    /\ result.severity = "CRITICAL"

\* The comments of people (accounts of type atlassian), newest first
HumanComments == SelectSeq(world.comments.comments, LAMBDA m : m.author.accountType = "atlassian")

CommentsAnswered == world.comments.response = "ok"

\* C16: with detectNoHumanComments on: no human comment and an issue older than 2
\* days give NO_COMMENTS (MEDIUM); with a human comment, NO_HUMAN_INTERACTION
\* (MEDIUM) is present iff the comment is older than the configured threshold; the
\* two reasons never occur together.
C16_CommentDetector ==
    Classified =>
        /\ ~(HasReason("NO_COMMENTS") /\ HasReason("NO_HUMAN_INTERACTION"))
        /\ (SettingsInForce.features.detectNoHumanComments /\ CommentsAnswered) =>
              /\ (HumanComments = <<>> /\ Now - world.issue.created > 2 * 24 * TicksPerHour) =>
                    /\ Len(ReasonsOfType("NO_COMMENTS")) = 1
                    /\ ReasonsOfType("NO_COMMENTS")[1].severity = "MEDIUM"
              /\ HumanComments # <<>> =>
                    /\ Len(ReasonsOfType("NO_HUMAN_INTERACTION"))
                          = (IF Now - HumanComments[1].created
                                  > SettingsInForce.noHumanCommentThreshold * TicksPerHour
                             THEN 1 ELSE 0)
                    /\ \A i \in 1..Len(ReasonsOfType("NO_HUMAN_INTERACTION")) :
                          ReasonsOfType("NO_HUMAN_INTERACTION")[i].severity = "MEDIUM"

\* An issue just over 2 days old that nobody ever commented on
C16_Witness ==
    /\ Classified /\ CommentsAnswered
    /\ world.comments.comments = <<>>
    /\ Now - world.issue.created = 2 * 24 * TicksPerHour + 1
    /\ Len(ReasonsOfType("NO_COMMENTS")) = 1

\* A human comment exactly as old as the threshold, behind a newer comment of the app
C16_AtThreshold ==
    /\ Classified /\ CommentsAnswered
    /\ SettingsInForce.features.detectNoHumanComments
    /\ HumanComments # <<>>
    /\ Now - HumanComments[1].created = SettingsInForce.noHumanCommentThreshold * TicksPerHour
    /\ ~HasReason("NO_HUMAN_INTERACTION")

\* A human comment older than the threshold, behind a newer comment of the app
C16_OldHumanComment ==
    /\ Classified /\ CommentsAnswered
    /\ Len(world.comments.comments) = 2 /\ Len(HumanComments) = 1
    /\ HasReason("NO_HUMAN_INTERACTION")

\* A switched-off toggle leaves no reason of the given type in the result
Suppresses(toggle, type) == ~SettingsInForce.features[toggle] => ~HasReason(type)

\* The four toggles that isStalled consults
ConsultedTogglesSuppress ==
    Classified =>
        /\ Suppresses("detectNoActivity", "NO_ACTIVITY")
        /\ Suppresses("detectNoHumanComments", "NO_HUMAN_INTERACTION")
        /\ Suppresses("detectNoHumanComments", "NO_COMMENTS")
        /\ Suppresses("detectUnassigned", "UNASSIGNED_ACTIVE")
        /\ Suppresses("detectBlockers", "HAS_BLOCKERS")

\* C17: only enabled detectors contribute reasons: when the toggle of a detector
\* is false (detectNoActivity, detectNoHumanComments, detectAssignedNotProgressing,
\* detectUnassigned, detectBlockers), the result has no reason of its type.
C17_DisabledTogglesSuppress ==
    /\ ConsultedTogglesSuppress
    /\ Classified => Suppresses("detectAssignedNotProgressing", "ASSIGNED_NOT_PROGRESSING")

\* The prefix that announces a severity in the summary
SummaryPrefix(severity) ==
    CASE severity = "CRITICAL" -> "Critical: "
      [] severity = "HIGH" -> "High Priority: "
      [] OTHER -> "Attention Needed: "

\* Position of the first reason, in list order, that has the given severity
FirstAtSeverity(reasons, severity) ==
    CHOOSE i \in 1..Len(reasons) :
        /\ reasons[i].severity = severity
        /\ \A j \in 1..(i - 1) : reasons[j].severity # severity

\* C18: for a non-empty reasons list the summary is the prefix of the overall
\* severity followed by the message of the first reason, in list order, whose
\* severity is the overall (highest) severity.
C18_SummaryQuotesFirstHighest ==
    (Classified /\ result.reasons # <<>>) =>
        /\ \E i \in 1..Len(result.reasons) : result.reasons[i].severity = result.severity
        /\ result.summary = SummaryPrefix(result.severity)
              \o result.reasons[FirstAtSeverity(result.reasons, result.severity)].message

\* A MEDIUM reason listed before the HIGH one: the summary quotes the second reason
C18_Witness ==
    /\ Classified
    /\ Len(result.reasons) >= 2
    /\ result.reasons[1].severity = "MEDIUM"
    /\ result.reasons[2].severity = "HIGH"
    /\ result.summary = "High Priority: " \o result.reasons[2].message
    /\ result.reasons[2].message # result.reasons[1].message

\* Only MEDIUM reasons: the summary quotes the first of them
C18_AttentionNeeded ==
    /\ Classified
    /\ Len(result.reasons) >= 2
    /\ result.severity = "MEDIUM"
    /\ result.summary = "Attention Needed: " \o result.reasons[1].message

\* Dates of the history entries in which a person changed a meaningful field
MeaningfulDates ==
    {world.changelog.histories[i].created : i \in
        {k \in 1..Len(world.changelog.histories) :
            /\ world.changelog.histories[k].author \notin BotAuthors
            /\ \E n \in 1..Len(world.changelog.histories[k].items) :
                  world.changelog.histories[k].items[n].field \in MEANINGFUL_CHANGES}}

Latest(dates) == CHOOSE d \in dates : \A e \in dates : e <= d

\* The analysis ran, answered, and there is a meaningful change to measure from
MeasuredFromChangelog ==
    /\ SettingsInForce.features.useChangelogAnalysis
    /\ world.changelog.response = "ok"
    /\ result.changelogAnalysis.kind = "analysis"
    /\ MeaningfulDates # {}

ExpectedElapsed ==
    IF MeasuredFromChangelog THEN Now - Latest(MeaningfulDates) ELSE Now - world.issue.updated

\* C23: the elapsed time of the NO_ACTIVITY, ASSIGNED_NOT_PROGRESSING and
\* STATUS_BLOCKED checks is measured from the last meaningful update when the
\* changelog analysis is enabled and found one, and from the issue's updated
\* timestamp otherwise; newer bot or noise changes do not shorten it.
C23_ElapsedFromLastMeaningfulUpdate ==
    Classified =>
        /\ \A i \in 1..Len(result.reasons) :
              result.reasons[i].type \in {"NO_ACTIVITY", "ASSIGNED_NOT_PROGRESSING", "STATUS_BLOCKED"}
                  => result.reasons[i].hours = ExpectedElapsed \div TicksPerHour
        /\ SettingsInForce.features.detectNoActivity =>
              (HasReason("NO_ACTIVITY")
                 <=> ExpectedElapsed > ThresholdInForce(world.issue.status) * TicksPerHour)
        /\ (world.issue.status = "In Progress" /\ world.issue.assignee.present) =>
              (HasReason("ASSIGNED_NOT_PROGRESSING")
                 <=> ExpectedElapsed > ThresholdInForce("In Progress") * TicksPerHour)

\* The issue was updated 20 hours ago by a bot and a ranking change; the last
\* meaningful change is 100 hours old and that is what NO_ACTIVITY reports
C23_Witness ==
    /\ Classified
    /\ world.changelog.histories = NoiseAfterWork
    /\ world.issue.updated = Now - 20 * TicksPerHour
    /\ MeasuredFromChangelog
    /\ Len(ReasonsOfType("NO_ACTIVITY")) = 1
    /\ ReasonsOfType("NO_ACTIVITY")[1].hours = 100

\* A history without any meaningful change: the updated timestamp counts
C23_OnlyNoise ==
    /\ Classified
    /\ world.changelog.histories = OnlyNoise
    /\ SettingsInForce.features.useChangelogAnalysis
    /\ world.issue.updated = Now - 50 * TicksPerHour
    /\ Len(ReasonsOfType("NO_ACTIVITY")) = 1
    /\ ReasonsOfType("NO_ACTIVITY")[1].hours = 50

\* The analysis is switched off although the history has meaningful changes
C23_AnalysisOff ==
    /\ Classified
    /\ ~SettingsInForce.features.useChangelogAnalysis
    /\ MeaningfulDates # {}
    /\ world.issue.updated = Now - 100 * TicksPerHour
    /\ Len(ReasonsOfType("NO_ACTIVITY")) = 1
    /\ ReasonsOfType("NO_ACTIVITY")[1].hours = 100

\* The changelog request failed although the history has meaningful changes
C23_AnalysisFailed ==
    /\ Classified
    /\ world.changelog.response # "ok"
    /\ MeaningfulDates # {}
    /\ Len(ReasonsOfType("NO_ACTIVITY")) = 1
    /\ ReasonsOfType("NO_ACTIVITY")[1].hours = 100

\* The patterns of the analysis embedded in the result
EmbeddedPatterns ==
    IF result.changelogAnalysis.kind = "analysis" THEN result.changelogAnalysis.patterns ELSE <<>>

IsPatternDerived(reason) == "pattern" \in DOMAIN reason /\ reason.pattern

\* C24: every pattern of the changelog analysis is in the result's reasons exactly
\* once, with its type, severity and message, tagged as pattern-derived, after all
\* detector reasons and in pattern order; an issue with a pattern is stalled.
C24_PatternsBecomeReasons ==
    Classified =>
        LET n == Len(result.reasons)
            k == Len(EmbeddedPatterns)
        IN  /\ k <= n
            /\ \A i \in 1..(n - k) : ~IsPatternDerived(result.reasons[i])
            /\ \A j \in 1..k :
                  /\ IsPatternDerived(result.reasons[n - k + j])
                  /\ result.reasons[n - k + j].type = EmbeddedPatterns[j].type
                  /\ result.reasons[n - k + j].severity = EmbeddedPatterns[j].severity
                  /\ result.reasons[n - k + j].message = EmbeddedPatterns[j].message
            /\ k > 0 => result.isStalled

\* Three patterns (ping-pong, reopened twice, stuck) behind three detector reasons
C24_Witness ==
    /\ Classified
    /\ Len(EmbeddedPatterns) = 3
    /\ EmbeddedPatterns[1].severity # EmbeddedPatterns[2].severity
    /\ Len(result.reasons) = 6
    /\ \A j \in 1..3 : result.reasons[3 + j].type = EmbeddedPatterns[j].type
    /\ result.reasons[4].type # result.reasons[5].type
    /\ result.reasons[5].type # result.reasons[6].type

\* A pattern is the only reason: the issue is stalled because of it
C24_PatternAlone ==
    /\ Classified
    /\ Len(EmbeddedPatterns) >= 1
    /\ Len(result.reasons) = Len(EmbeddedPatterns)
    /\ result.isStalled

-----------------------------------------------------------------------------
(* Properties of the context advisor *)

SuggestionsGenerated ==
    /\ Classified
    /\ result.isStalled
    /\ getSettings(world.config, world.settingsStorageOk).features.useContextualSuggestions
    /\ ~generateContextualSuggestionsThrows(world.issue, result.reasons, world.watchers)

\* Everything the generators produced for the classified issue
Generated ==
    RawSuggestions(world.issue, result.reasons, result.changelogAnalysis,
                   [blocking |-> LinksView(world, world.blockingResponse),
                    linked |-> LinksView(world, world.linkedResponse)],
                   world.watchers)

\* C6: the returned suggestions never hold the same (type, action) pair twice.
C6_NoDuplicateSuggestions ==
    Classified =>
        \A i, j \in 1..Len(result.contextualSuggestions) :
            (/\ result.contextualSuggestions[i].type = result.contextualSuggestions[j].type
             /\ result.contextualSuggestions[i].action = result.contextualSuggestions[j].action)
                => i = j

\* The same blocker was suggested twice and is returned once
C6_Witness ==
    /\ SuggestionsGenerated
    /\ \E i, j \in 1..Len(Generated) :
          i # j /\ Generated[i].type = "RESOLVE_BLOCKER" /\ Generated[i] = Generated[j]
    /\ Cardinality({i \in 1..Len(result.contextualSuggestions) :
                      result.contextualSuggestions[i].type = "RESOLVE_BLOCKER"}) = 1

Confidence(c) == CASE c = "CRITICAL" -> 3 [] c = "HIGH" -> 2 [] c = "MEDIUM" -> 1 [] c = "LOW" -> 0

Returned(sug) ==
    \E i \in 1..Len(result.contextualSuggestions) :
        /\ result.contextualSuggestions[i].type = sug.type
        /\ result.contextualSuggestions[i].action = sug.action

\* C7: at most 5 suggestions are returned, in order of confidence from CRITICAL
\* down to LOW, and no suggestion left out is more confident than a returned one.
C7_TopFiveByConfidence ==
    Classified =>
        /\ Len(result.contextualSuggestions) <= 5
        /\ \A i, j \in 1..Len(result.contextualSuggestions) :
              i < j => Confidence(result.contextualSuggestions[i].confidence)
                         >= Confidence(result.contextualSuggestions[j].confidence)
        /\ SuggestionsGenerated =>
              \A k \in 1..Len(Generated) :
                  \/ Returned(Generated[k])
                  \/ \A i \in 1..Len(result.contextualSuggestions) :
                        Confidence(result.contextualSuggestions[i].confidence)
                          >= Confidence(Generated[k].confidence)

\* More than 5 distinct suggestions of three confidence levels were generated
C7_Witness ==
    /\ SuggestionsGenerated
    /\ Len(result.contextualSuggestions) = 5
    /\ \E k \in 1..Len(Generated) : ~Returned(Generated[k])
    /\ Cardinality({result.contextualSuggestions[i].confidence :
                      i \in 1..Len(result.contextualSuggestions)}) >= 3

-----------------------------------------------------------------------------
(* Properties of the dashboard *)

\* A run of the aggregator over a search that answered
Aggregated == phase = "dashboard" /\ listResponse = "ok"

\* C1: in every result of getDashboardMetrics the total number of issues is the
\* number of stalled issues plus the number of healthy issues; an issue whose
\* details or classification failed is in none of the three counts.
C1_TotalIsStalledPlusHealthy ==
    Aggregated => metrics.totalIssues = metrics.stalledIssues + metrics.healthyIssues

\* What one issue of the board comes to on its own: "failed" when its details
\* cannot be fetched or its classification throws, "stalled" or "healthy" otherwise
VerdictOf(stallInfo) ==
    IF stallInfo.kind = "threw" THEN "failed"
    ELSE IF stallInfo.isStalled THEN "stalled" ELSE "healthy"

IssueOutcome(w) ==
    IF w.detailResponse # "ok" THEN "failed"
    ELSE VerdictOf(isStalled([w EXCEPT !.config = board.config], Now))

\* Positions of the board's issues with the given outcome
IssuesWith(outcome) == {i \in 1..Len(board.issues) : IssueOutcome(board.issues[i]) = outcome}

DisplayedAssignee(w) ==
    IF w.issue.assignee.present THEN w.issue.assignee.displayName ELSE "Unassigned"

\* Position on the board of the issue with the given key
PositionOf(key) == CHOOSE i \in 1..Len(board.issues) : board.issues[i].issue.key = key

\* C21: a failure while fetching or classifying one issue does not abort the
\* batch: every other issue is processed exactly once, in the order of the board,
\* and the failing issue is in no stalled or healthy counter (overall, per status,
\* per assignee).
C21_FailingIssueIsSkipped ==
    Aggregated =>
        /\ metrics.stalledIssues = Cardinality(IssuesWith("stalled"))
        /\ metrics.healthyIssues = Cardinality(IssuesWith("healthy"))
        /\ \A name \in DOMAIN metrics.byStatus :
              /\ metrics.byStatus[name].stalled
                    = Cardinality({i \in IssuesWith("stalled") : board.issues[i].issue.status = name})
              /\ metrics.byStatus[name].healthy
                    = Cardinality({i \in IssuesWith("healthy") : board.issues[i].issue.status = name})
        /\ \A name \in DOMAIN metrics.byAssignee :
              /\ metrics.byAssignee[name].stalled
                    = Cardinality({i \in IssuesWith("stalled") :
                                     DisplayedAssignee(board.issues[i]) = name})
              /\ metrics.byAssignee[name].healthy
                    = Cardinality({i \in IssuesWith("healthy") :
                                     DisplayedAssignee(board.issues[i]) = name})
        /\ Len(metrics.recentlyStalled) = Cardinality(IssuesWith("stalled"))
        /\ {metrics.recentlyStalled[k].key : k \in 1..Len(metrics.recentlyStalled)}
              = {board.issues[i].issue.key : i \in IssuesWith("stalled")}
        /\ \A k, l \in 1..Len(metrics.recentlyStalled) :
              (/\ k < l
               /\ metrics.recentlyStalled[k].hoursSinceUpdate
                     = metrics.recentlyStalled[l].hoursSinceUpdate)
                 => PositionOf(metrics.recentlyStalled[k].key)
                      < PositionOf(metrics.recentlyStalled[l].key)

\* The details of the first issue cannot be fetched, the second issue is stalled
C21_Witness ==
    /\ Aggregated
    /\ Len(board.issues) = 2
    /\ board.issues[1].detailResponse = "throw"
    /\ board.issues[2].detailResponse = "ok"
    /\ metrics.stalledIssues = 1 /\ metrics.healthyIssues = 0
    /\ metrics.recentlyStalled[1].key = board.issues[2].issue.key

\* Every classification throws (settings stored without toggles): nothing is counted
C21_EveryClassificationThrows ==
    /\ Aggregated
    /\ Len(board.issues) = 2
    /\ \A i \in 1..2 : board.issues[i].detailResponse = "ok"
    /\ board.config # NoConfig
    /\ metrics.stalledIssues = 0 /\ metrics.healthyIssues = 0

\* Time since the last update of the issue at a position of the board, in ticks
SinceUpdate(i) == Now - board.issues[i].issue.updated

\* longestStalled is null exactly when no issue was classified as stalled
LongestStalledNullIffNoneStalled ==
    Aggregated => ((metrics.longestStalled = NullAnalysis) <=> (IssuesWith("stalled") = {}))

\* C22: after a dashboard run longestStalled is null iff no issue was classified
\* as stalled; otherwise it is a stalled issue whose time since update is at least
\* that of every other stalled issue, fractions of an hour included.
C22_LongestStalledIsMaximum ==
    /\ LongestStalledNullIffNoneStalled
    /\ (Aggregated /\ metrics.longestStalled # NullAnalysis) =>
          \E i \in IssuesWith("stalled") :
              /\ board.issues[i].issue.key = metrics.longestStalled.key
              /\ \A j \in IssuesWith("stalled") : SinceUpdate(i) >= SinceUpdate(j)

\* C29: after any dashboard run the severity buckets sum to the stalled count,
\* the LOW bucket is 0, and no reason type is counted more often than there are
\* stalled issues.
C29_HistogramsMatchStalledCount ==
    phase = "dashboard" =>
        /\ metrics.bySeverity["CRITICAL"] + metrics.bySeverity["HIGH"]
              + metrics.bySeverity["MEDIUM"] + metrics.bySeverity["LOW"] = metrics.stalledIssues
        /\ metrics.bySeverity["LOW"] = 0
        /\ \A type \in DOMAIN metrics.stallReasons :
              metrics.stallReasons[type] <= metrics.stalledIssues

\* Two stalled issues of different severity, one with pattern reasons, and a
\* reason type both of them carry
C29_Witness ==
    /\ Aggregated
    /\ metrics.stalledIssues = 2
    /\ metrics.bySeverity["CRITICAL"] = 1 /\ metrics.bySeverity["HIGH"] = 1
    /\ "MULTIPLE_REOPENS" \in DOMAIN metrics.stallReasons
    /\ \E type \in DOMAIN metrics.stallReasons : metrics.stallReasons[type] = 2

\* A stalled issue in the MEDIUM bucket next to one in the HIGH bucket
C29_MediumAndHigh ==
    /\ Aggregated
    /\ metrics.stalledIssues = 2
    /\ metrics.bySeverity["MEDIUM"] = 1 /\ metrics.bySeverity["HIGH"] = 1

\* The search for active issues failed: it answered non-ok or the request threw
ListingFailed == phase = "dashboard" /\ listResponse # "ok"

\* C20: when the issue listing of getDashboardMetrics fails, the failure does not
\* propagate and the result is the all-zero metrics: counts 0, every severity
\* bucket 0, empty breakdowns and reason histogram, average 0, no longest stalled
\* issue, empty list of notable issues.
C20_ListingFailureGivesZeroMetrics ==
    ListingFailed =>
        /\ metrics.kind = "metrics"
        /\ metrics.totalIssues = 0 /\ metrics.stalledIssues = 0 /\ metrics.healthyIssues = 0
        /\ DOMAIN metrics.bySeverity = {"CRITICAL", "HIGH", "MEDIUM", "LOW"}
        /\ \A sev \in DOMAIN metrics.bySeverity : metrics.bySeverity[sev] = 0
        /\ DOMAIN metrics.byStatus = {} /\ DOMAIN metrics.byAssignee = {}
        /\ DOMAIN metrics.stallReasons = {}
        /\ metrics.averageStallTime = 0
        /\ metrics.longestStalled = NullAnalysis
        /\ metrics.recentlyStalled = <<>>

\* Two active issues, the search request throws
C20_Witness ==
    /\ ListingFailed
    /\ listResponse = "throw"
    /\ Len(board.issues) = 2
    /\ metrics.kind = "metrics"
    /\ metrics.totalIssues = 0

\* Active issues, the search answers with a non-ok status
C20_NonOkAnswer ==
    /\ ListingFailed
    /\ listResponse = "notok"
    /\ Len(board.issues) >= 1
    /\ metrics.totalIssues = 0

-----------------------------------------------------------------------------
(* Properties of the configuration store *)

\* C12: importConfig(exportConfig()) leaves what getThresholds() and getSettings()
\* return as it was, whether the store was empty or held thresholds, settings or both.
C12_RoundTripKeepsConfig ==
    (configOp.name = "roundTrip" /\ configOp.exported /\ configOp.success) =>
        /\ getThresholdsFrom(defaultThresholds, store, TRUE)
              = getThresholdsFrom(defaultThresholds, configOp.before, TRUE)
        /\ getSettings(store, TRUE) = getSettings(configOp.before, TRUE)

\* The round trip over the empty store stores the defaults
C12_Witness ==
    /\ configOp.name = "roundTrip" /\ configOp.exported /\ configOp.success
    /\ configOp.before = NoConfig
    /\ HasKey(store, THRESHOLDS_KEY) /\ HasKey(store, SETTINGS_KEY)

\* The round trip over a store holding custom thresholds and no settings
C12_ThresholdsOnly ==
    /\ configOp.name = "roundTrip" /\ configOp.exported /\ configOp.success
    /\ HasKey(configOp.before, THRESHOLDS_KEY) /\ ~HasKey(configOp.before, SETTINGS_KEY)
    /\ configOp.before.value[THRESHOLDS_KEY] = CustomThresholds

\* resetThresholds() just reported success
ResetDone == configOp.name = "resetThresholds" /\ configOp.success

\* A successful reset leaves what getSettings() returns as it was
ResetKeepsSettings ==
    ResetDone => getSettings(store, TRUE) = getSettings(configOp.before, TRUE)

\* C25: after any sequence of configuration operations from any store state, a
\* successful resetThresholds() makes getThresholds() return exactly the built-in
\* defaults (In Progress 48, In Review 24, Code Review 24, To Do 168, Backlog 336,
\* Blocked 12, Testing 48, QA 48, default 72) and leaves the settings unchanged.
C25_ResetRestoresBuiltInDefaults ==
    /\ ResetKeepsSettings
    /\ ResetDone =>
          getThresholdsFrom(defaultThresholds, store, TRUE)
            = [name \in {"In Progress", "In Review", "Code Review", "To Do", "Backlog",
                          "Blocked", "Testing", "QA", "default"} |->
                 CASE name = "In Progress" -> 48
                   [] name \in {"In Review", "Code Review"} -> 24
                   [] name = "To Do" -> 168
                   [] name = "Backlog" -> 336
                   [] name = "Blocked" -> 12
                   [] name \in {"Testing", "QA"} -> 48
                   [] OTHER -> 72]

\* A threshold lookup answered from the stored mapping
LookedUp ==
    /\ configOp.name = "getThresholdForStatus"
    /\ configOp.storageOk
    /\ HasKey(configOp.before, THRESHOLDS_KEY)

StoredMapping == configOp.before.value[THRESHOLDS_KEY]

C19_OwnEntry ==
    /\ LookedUp
    /\ configOp.status = "In Progress"
    /\ "default" \in DOMAIN StoredMapping
    /\ StoredMapping["In Progress"] = 10
    /\ configOp.hours = 10

\* Neither an entry for the status nor a default entry
C19_NoDefault ==
    /\ LookedUp
    /\ DOMAIN StoredMapping \cap {configOp.status, "default"} = {}
    /\ configOp.hours = 72

-----------------------------------------------------------------------------
(* Properties of the comment handler and the scheduled scan *)

\* C26: handleComment posts no comment for a comment event whose author is the
\* app's own account, also when the lookup of the app's account id fails.
C26_NoReplyToOwnComments ==
    (lastRun.name = "handleComment" /\ lastRun.author = AppUser.accountId)
        => lastRun.post = "none"

\* Positions of the app's comments on the thread
AppComments == {i \in 1..Len(thread) : thread[i].author = AppUser.accountId}

\* C27: the app never posts two comments on the same issue less than the cooldown
\* (24 hours) apart, whether they are stall warnings or encouragements.
C27_CooldownBetweenAppComments ==
    \A i, j \in AppComments :
        i < j => thread[j].created - thread[i].created >= 24

-----------------------------------------------------------------------------
(* Properties of concurrent configuration writes *)

Succeeded(name) == Running(name, "returned") /\ calls[name].success

\* What the object holds under the key: one value, or none
StoredUnder(config, key) == IF HasKey(config, key) THEN <<config.value[key]>> ELSE <<>>

\* A call that ran with no other call in the instance left the other key as it was
AloneKeepsOtherKey ==
    \A name \in Writers :
        (DOMAIN calls = {name} /\ calls[name].pc = "returned")
            => StoredUnder(store, OtherKey(name)) = StoredUnder(calls[name].before, OtherKey(name))

\* The two calls overlapped and both reported success
BothSucceeded == \A name \in Writers : Succeeded(name)

\* C30: when setThresholds(T) and setSettings(S) run concurrently and both report
\* success, the store holds T as thresholds and S as settings; run alone, each
\* leaves the key of the other unchanged.
C30_ConcurrentWritesKeepBoth ==
    /\ BothSucceeded =>
          \A name \in Writers : StoredUnder(store, KeyOf(name)) = <<calls[name].value>>
    /\ AloneKeepsOtherKey

\* Both calls reported success one after the other: both values are stored
C30_SequentialWritesKeepBoth ==
    /\ BothSucceeded
    /\ \A name \in Writers : StoredUnder(store, KeyOf(name)) = <<calls[name].value>>

\* A call alone reported success over a store holding both keys
C30_AloneOverStoredConfig ==
    /\ DOMAIN calls = {"setSettings"}
    /\ Succeeded("setSettings")
    /\ HasKey(calls["setSettings"].before, THRESHOLDS_KEY)
    /\ StoredUnder(store, SETTINGS_KEY) = <<calls["setSettings"].value>>

====
